---- MODULE Spec2Model ----
(***************************************************************************)
(* A model of the task runner: the namespace registry, the module loader,  *)
(* the task call protocol, the serial and thread task groups, the context  *)
(* and the CLI entry.                                                      *)
(***************************************************************************)
EXTENDS Integers, Sequences, FiniteSets, TLC

VARIABLES
    store,            \* _GlobalNamespace._internal_namespace: qualified name -> task class
    regLog,           \* history: the register calls made so far, <<qualified name, class>>
    lastGet,          \* outcome of the most recent get_task_class call
    mods,             \* the module graph handed to the loader (input)
    modules,          \* load_tasks_from_module: the worklist
    handled_modules,  \* load_tasks_from_module: the set of expanded modules
    loadPc,           \* position of load_tasks_from_module
    cliIn,            \* main(argv, raise_error=...) and its environment (input)
    cliPc,            \* position of main
    cliOut,           \* how main ended: exit code, escaping exception, listing
    task,             \* Main.get_task: the task instance
    ran,              \* history: the task calls made by Main.run_task
    callIn,           \* Task.__call__: the argv and allow_unknown_args (input)
    callPc,           \* position of Task.__call__
    callOut,          \* what Task.__call__ did: run's arguments, the result, the exit code
    grpIn,            \* a task group: its kind, task_classes and max_workers (input)
    grpPc,            \* position of the thread that called the group's run
    members,          \* per member task: state of its run and the number of its runs
    sink,             \* the list the member tasks of the tests append to
    grpOut,           \* how the group's run ended
    pool,             \* ThreadPoolExecutor: _work_queue, _idle_semaphore and _shutdown
    workers,          \* ThreadPoolExecutor: per worker thread, the member it runs
    observed,         \* as_completed: the futures whose result was taken
    contexts,         \* the Context objects, by identity
    _instance,        \* GlobalContext._instance (0: the attribute is not set)
    instances,        \* the task instances: class, context held, context given
    subIn,            \* a subprocess task: its class attributes (input)
    subCtx,           \* the context of the subprocess task: cwd and env
    subPc,            \* position of the subprocess task's run
    subOut,           \* how run ended: the value returned, the exception raised
    processes,        \* the subprocesses spawned: arguments of subprocess.run, exit status
    condIn,           \* a FilesNotModified condition: files, algorithm, allow_missing (input)
    fs,               \* the file system: per path, its kind, content and modification time
    cacheFile,        \* the condition's cache file: None, or the JSON text written
    condOut,          \* the evaluations of the condition: their number, the last result
    evaluatedFs,      \* the file system as it was at the last evaluation (history)
    inputIn,          \* a call of Task.input: prompt, required (input)
    stdin,            \* the lines of the context's stdin that are not read yet
    stdout,           \* what was written to the context's stdout, write by write
    inputPc,          \* where Task.input is: "idle" (not called), "write", "read" or "done"
    inputOut,         \* what Task.input returned, the lines it read, and how many writes
                      \* stdout held when it was called and when it returned
    clsIn,            \* a class statement of a Task type: name, docstring, Meta (input)
    clsOut,           \* its construction: the _meta of the class made, or the error raised
    cmdIn,            \* a call task.run(*args, **kwargs) of a Command or a ProgramTask (input)
    cmdOut            \* the calls run made, in order, and the error it raised

nsVars   == <<store, regLog, lastGet>>
loadVars == <<mods, modules, handled_modules, loadPc>>
cliVars  == <<cliIn, cliPc, cliOut, task, ran>>
callVars == <<callIn, callPc, callOut>>
grpVars  == <<grpIn, grpPc, members, sink, grpOut, pool, workers, observed>>
ctxVars  == <<contexts, _instance, instances>>
subVars  == <<subIn, subCtx, subPc, subOut, processes>>
condVars == <<condIn, fs, cacheFile, condOut, evaluatedFs>>
inputVars == <<inputIn, stdin, stdout, inputPc, inputOut>>
metaVars == <<clsIn, clsOut>>
cmdVars == <<cmdIn, cmdOut>>
extVars  == <<subVars, condVars, inputVars, metaVars, cmdVars>>
otherVars == <<callVars, grpVars, ctxVars, extVars>>
vars     == <<nsVars, loadVars, cliVars, callVars, grpVars, ctxVars, extVars>>

(***************************************************************************)
(* Bounds                                                                  *)
(***************************************************************************)
MaxRegs == 2      \* register calls in a run of the namespace specification
MaxSubs == 2      \* entries of a module's MOM_NAMESPACES mapping
MaxArgv == 3      \* tokens of the argv given to main

(***************************************************************************)
(* Idle values of the components a specification does not exercise        *)
(***************************************************************************)
NoValue == "<none>"

\* main has not ended / no task instance yet.
NoOutcome == [kind |-> "none", exit_code |-> 0, raised |-> NoValue, listed |-> {}]
NoTask    == [cls |-> NoValue, name |-> NoValue]

CliIdle ==
    /\ cliIn = NoValue
    /\ cliPc = "idle"
    /\ cliOut = NoOutcome
    /\ task = NoTask
    /\ ran = <<>>

CallIdle ==
    /\ callIn = NoValue
    /\ callPc = "idle"
    /\ callOut = NoValue

\* An executor without work and threads; a group run that raised nothing (0: no member).
EmptyPool  == [work_queue |-> <<>>, idle_semaphore |-> 0, shutdown |-> FALSE]
NoGroupOut == [raised_by |-> 0]

GroupIdle ==
    /\ grpIn = NoValue
    /\ grpPc = [pc |-> "idle", idx |-> 0]
    /\ members = <<>>
    /\ sink = <<>>
    /\ grpOut = NoGroupOut
    /\ pool = EmptyPool
    /\ workers = <<>>
    /\ observed = {}

ContextIdle ==
    /\ contexts = <<>>
    /\ _instance = 0
    /\ instances = <<>>

\* No subprocess task was run. An optional value (None or a value) is written as a
\* sequence: <<>> is None, <<v>> is the value v.
None == <<>>
Some(v) == <<v>>
NoSubOut == [returned |-> None, raised |-> NoValue]

SubIdle ==
    /\ subIn = NoValue
    /\ subCtx = NoValue
    /\ subPc = "idle"
    /\ subOut = NoSubOut
    /\ processes = <<>>

NoCondOut == [evals |-> 0, result |-> None]

CondIdle ==
    /\ condIn = NoValue
    /\ fs = <<>>
    /\ cacheFile = None
    /\ condOut = NoCondOut
    /\ evaluatedFs = <<>>

NoInputOut == [returned |-> None, lines |-> <<>>, stdout_before |-> 0, stdout_after |-> 0]

InputIdle ==
    /\ inputIn = NoValue
    /\ stdin = <<>>
    /\ stdout = <<>>
    /\ inputPc = "idle"
    /\ inputOut = NoInputOut

NoClsOut == [made |-> FALSE, raised |-> NoValue, meta |-> None]

MetaIdle ==
    /\ clsIn = NoValue
    /\ clsOut = NoClsOut

NoCmdOut == [ran |-> FALSE, calls |-> <<>>, raised |-> NoValue]

CmdIdle ==
    /\ cmdIn = NoValue
    /\ cmdOut = NoCmdOut

ExtIdle == SubIdle /\ CondIdle /\ InputIdle /\ MetaIdle /\ CmdIdle

OtherIdle == CallIdle /\ GroupIdle /\ ContextIdle /\ ExtIdle

(***************************************************************************)
(* Namespaces (task_mom/namespace.py)                                      *)
(***************************************************************************)
global_namespace == [kind |-> "global"]

Namespace(name, parent) == [kind |-> "ns", _namespace |-> name, _parent |-> parent]

RECURSIVE namespace_name_swapped(_, _)
namespace_name_swapped(ns, name) ==
    IF ns.kind = "global"
    THEN name
    ELSE namespace_name_swapped(ns._parent, name \o ":" \o ns._namespace)

RECURSIVE namespace_name(_, _)
namespace_name(ns, name) ==
    IF ns.kind = "global"
    THEN name
    ELSE namespace_name(ns._parent, ns._namespace \o ":" \o name)

EmptyStore == [k \in {} |-> NoValue]

_store_keep_first(st, cls, name) ==
    IF name \in DOMAIN st THEN st
    ELSE [k \in DOMAIN st \cup {name} |-> IF k = name THEN cls ELSE st[k]]

_store(st, cls, name) ==
    [k \in DOMAIN st \cup {name} |-> IF k = name THEN cls ELSE st[k]]

register(st, ns, cls, name) == _store(st, cls, namespace_name(ns, name))

get_task_class_default(st, ns, name) ==
    LET full_name == namespace_name(ns, name)
    IN  IF full_name \in DOMAIN st
        THEN [raised |-> NoValue, value |-> st[full_name]]
        ELSE [raised |-> NoValue, value |-> NoValue]

get_task_class(st, ns, name) ==
    LET full_name == namespace_name(ns, name)
    IN  IF full_name \in DOMAIN st
        THEN [raised |-> NoValue, value |-> st[full_name]]
        ELSE [raised |-> "KeyError", value |-> NoValue]

(***************************************************************************)
(* Specification of the namespace registry: namespaces built with          *)
(* Namespace(name, parent=...), register and get_task_class calls.         *)
(***************************************************************************)
Segments  == {"A", "B"}
TaskNames == {"x", "y"}
Classes   == {"MyTask", "MyTask2"}

NsDepth1 == {Namespace(a, global_namespace) : a \in Segments}
NsDepth2 == {Namespace(b, p) : b \in Segments, p \in NsDepth1}
Namespaces == {global_namespace} \cup NsDepth1 \cup NsDepth2

NoGet == [ns |-> global_namespace, name |-> NoValue, raised |-> NoValue, value |-> NoValue]

\* The names under which the global namespace is asked for a task of a nested namespace.
QualifiedNames == {namespace_name(ns, x) : ns \in Namespaces, x \in TaskNames}

InitNs ==
    /\ store = EmptyStore
    /\ regLog = <<>>
    /\ lastGet = NoGet
    /\ mods = <<>>
    /\ modules = <<>>
    /\ handled_modules = {}
    /\ loadPc = "idle"
    /\ CliIdle
    /\ OtherIdle

Register(ns, cls, name) ==
    /\ Len(regLog) < MaxRegs
    /\ store' = register(store, ns, cls, name)
    /\ regLog' = Append(regLog, [ns |-> ns, name |-> name, cls |-> cls])
    /\ lastGet' = NoGet
    /\ UNCHANGED <<loadVars, cliVars, otherVars>>

GetTaskClass(ns, name) ==
    /\ lastGet' = [ns |-> ns, name |-> name] @@ get_task_class(store, ns, name)
    /\ UNCHANGED <<store, regLog, loadVars, cliVars, otherVars>>

\* A name given to the global namespace that a nested namespace composes too.
CollidingNames == {"A:x"}

NextNs ==
    \/ \E ns \in Namespaces, cls \in Classes, name \in TaskNames : Register(ns, cls, name)
    \/ \E cls \in Classes, name \in CollidingNames : Register(global_namespace, cls, name)
    \/ \E ns \in Namespaces, name \in TaskNames : GetTaskClass(ns, name)
    \/ \E name \in QualifiedNames : GetTaskClass(global_namespace, name)

SpecNs == InitNs /\ [][NextNs]_vars

(***************************************************************************)
(* Module loader (task_mom/loader.py).  A module is described by whether   *)
(* it has a MOM_NAMESPACES attribute, the items of that mapping in         *)
(* insertion order, and the values of its __dict__ in definition order.    *)
(***************************************************************************)
ModuleIds  == {"M", "S", "T"}
RootModule == "M"
SubNames   == {"", "a"}

\* A binding of a module's __dict__: a Task subclass with its _meta, or another object.
\* _meta.alias is a string (alias_is_str, the string being alias[1]) or a list of strings.
TaskClass(name, alias, alias_is_str, abstract) ==
    [name |-> name, is_task |-> TRUE, alias |-> alias, alias_is_str |-> alias_is_str,
     abstract |-> abstract]
OtherObject(name) ==
    [name |-> name, is_task |-> FALSE, alias |-> <<>>, alias_is_str |-> FALSE,
     abstract |-> FALSE]

\* The aliases the loader registers a binding under, in order (loader.py lines 47-54).
RegisteredAliasesIgnoringAbstract(obj) ==
    IF ~obj.is_task THEN <<>>
    ELSE IF obj.alias_is_str THEN <<obj.alias[1]>>
    ELSE obj.alias

RegisteredAliases(obj) ==
    IF ~obj.is_task THEN <<>>
    ELSE IF obj.abstract THEN <<>>
    ELSE IF obj.alias_is_str THEN <<obj.alias[1]>>
    ELSE obj.alias

\* The register calls of the for loop over module.__dict__, in order.
RECURSIVE ModuleRegistrations(_, _)
ModuleRegistrations(dict, namespace) ==
    IF dict = <<>> THEN <<>>
    ELSE LET obj     == Head(dict)
             aliases == RegisteredAliases(obj)
         IN  [i \in 1..Len(aliases) |->
                 [ns |-> namespace, name |-> aliases[i], cls |-> obj.name]]
             \o ModuleRegistrations(Tail(dict), namespace)

RECURSIVE ApplyRegistrations(_, _)
ApplyRegistrations(st, regs) ==
    IF regs = <<>> THEN st
    ELSE ApplyRegistrations(register(st, Head(regs).ns, Head(regs).cls, Head(regs).name),
                            Tail(regs))

\* The worklist entries pushed for the items of MOM_NAMESPACES, in order.
SubModuleEntries(items, namespace) ==
    [i \in 1..Len(items) |->
        [module    |-> items[i][2],
         namespace |-> IF items[i][1] # ""
                       THEN Namespace(items[i][1], namespace)
                       ELSE namespace]]

\* load_tasks_from_module, the if branch of one iteration, own entry pushed last.
ExpandedWorklistChildrenFirst(rest, module, namespace) ==
    rest \o SubModuleEntries(mods[module].MOM_NAMESPACES, namespace)
         \o <<[module |-> module, namespace |-> namespace]>>

\* load_tasks_from_module, the if branch of one iteration (lines 37-44).
ExpandedWorklist(rest, module, namespace) ==
    rest \o <<[module |-> module, namespace |-> namespace]>>
         \o SubModuleEntries(mods[module].MOM_NAMESPACES, namespace)

\* The inputs: bodies and sub-module mappings of the modules.
ModuleBodies(m) ==
    { <<TaskClass(m \o "Task", <<"x">>, TRUE, FALSE)>> }
    \cup IF m = "T" THEN {}
         ELSE { <<TaskClass(m \o "Base", <<"y">>, TRUE, TRUE),
                  OtherObject(m \o "helper"),
                  TaskClass(m \o "Task", <<"x", "y">>, FALSE, FALSE)>> }

NamespaceItems ==
    {<<>>}
    \cup {<<<<n, s>>>> : n \in SubNames, s \in ModuleIds}
    \cup {items \in {<<<<n1, s1>>, <<n2, s2>>>> :
                        n1 \in SubNames, n2 \in SubNames, s1 \in ModuleIds, s2 \in ModuleIds} :
            items[1][1] # items[2][1]}

ModuleDescriptions(m) ==
    {[has_namespaces |-> FALSE, MOM_NAMESPACES |-> <<>>, dict |-> d] : d \in ModuleBodies(m)}
    \cup {[has_namespaces |-> TRUE, MOM_NAMESPACES |-> items, dict |-> d] :
            items \in {i \in NamespaceItems : Len(i) <= MaxSubs}, d \in ModuleBodies(m)}

ModuleGraphs ==
    {("M" :> dm) @@ ("S" :> ds) @@ ("T" :> dt) :
        dm \in ModuleDescriptions("M"), ds \in ModuleDescriptions("S"),
        dt \in ModuleDescriptions("T")}

InitLoad ==
    /\ store = EmptyStore
    /\ regLog = <<>>
    /\ lastGet = NoGet
    /\ mods \in ModuleGraphs
    /\ modules = <<[module |-> RootModule, namespace |-> global_namespace]>>
    /\ handled_modules = {}
    /\ loadPc = "loading"
    /\ CliIdle
    /\ OtherIdle

\* modules.pop()
Popped == modules[Len(modules)]
Rest   == SubSeq(modules, 1, Len(modules) - 1)

\* Line 36 without the test of handled_modules.
has_namespaces_unhandled_or_not == mods[Popped.module].has_namespaces

\* Line 36: hasattr(module, "MOM_NAMESPACES") and module not in handled_modules
has_namespaces_unhandled ==
    mods[Popped.module].has_namespaces /\ Popped.module \notin handled_modules

LoadExpand ==
    /\ loadPc = "loading"
    /\ modules # <<>>
    /\ has_namespaces_unhandled
    /\ modules' = ExpandedWorklist(Rest, Popped.module, Popped.namespace)
    /\ handled_modules' = handled_modules \cup {Popped.module}
    /\ UNCHANGED <<store, regLog, lastGet, mods, loadPc, cliVars, otherVars>>

LoadRegister ==
    /\ loadPc = "loading"
    /\ modules # <<>>
    /\ ~has_namespaces_unhandled
    /\ LET regs == ModuleRegistrations(mods[Popped.module].dict, Popped.namespace)
       IN  /\ store' = ApplyRegistrations(store, regs)
           /\ regLog' = regLog \o regs
    /\ modules' = Rest
    /\ UNCHANGED <<lastGet, mods, handled_modules, loadPc, cliVars, otherVars>>

LoadReturn ==
    /\ loadPc = "loading"
    /\ modules = <<>>
    /\ loadPc' = "done"
    /\ UNCHANGED <<store, regLog, lastGet, mods, modules, handled_modules, cliVars, otherVars>>

NextLoad == LoadExpand \/ LoadRegister \/ LoadReturn

SpecLoad == InitLoad /\ [][NextLoad]_vars

(***************************************************************************)
(* CLI entry (task_mom/cli.py): main -> Main.__call__ -> load_tasks ->      *)
(* run_task -> get_task -> task(args).                                     *)
(***************************************************************************)
StartsWith(str, prefix) ==
    Len(str) >= Len(prefix) /\ SubSeq(str, 1, Len(prefix)) = prefix

\* Main._partition_args: the loop `while arg := next(args, None)` ends when the
\* iterator is exhausted and also when the token is falsy (the empty string).
RECURSIVE PartitionFrom(_, _, _, _, _)
PartitionFrom(args, i, main_args, task_name, task_args) ==
    IF i > Len(args) \/ args[i] = ""
    THEN [main_args |-> main_args, task_name |-> task_name, task_args |-> task_args]
    ELSE LET arg == args[i]
         IN  IF task_name # NoValue
             THEN PartitionFrom(args, i + 1, main_args, task_name, Append(task_args, arg))
             ELSE IF arg = "-m" \/ StartsWith(arg, "--module")
             THEN IF i + 1 <= Len(args)
                  THEN PartitionFrom(args, i + 2, main_args \o <<arg, args[i + 1]>>,
                                     task_name, task_args)
                  ELSE PartitionFrom(args, i + 1, Append(main_args, arg), task_name, task_args)
             ELSE IF ~StartsWith(arg, "-")
             THEN PartitionFrom(args, i + 1, main_args, arg, task_args)
             ELSE PartitionFrom(args, i + 1, Append(main_args, arg), task_name, task_args)

_partition_args(args) == PartitionFrom(args, 1, <<>>, NoValue, <<>>)

(***************************************************************************)
(* argparse.ArgumentParser, which Main.parser (cli.py lines 85-104) and    *)
(* the parser of a task (tasks.py lines 282-296) are: the parsing of       *)
(* ArgumentParser._parse_known_args for store, store_true, help and        *)
(* version actions and for positionals with nargs None, "?" and "*".  A    *)
(* parser is described by its option strings, its actions by dest, its     *)
(* positionals in order, its mutually exclusive actions and the defaults   *)
(* of its namespace.  The parsing is that of CPython 3.12.0, the oldest    *)
(* interpreter that setup.py admits (python_requires).                     *)
(***************************************************************************)
Char(str, i) == SubSeq(str, i, i)

RECURSIVE IndexOf(_, _, _)
\* str.find(ch) from position i on, counted from 1 (0: not found).
IndexOf(str, ch, i) ==
    IF i > Len(str) THEN 0
    ELSE IF Char(str, i) = ch THEN i
    ELSE IndexOf(str, ch, i + 1)

Digits == {"0", "1", "2", "3", "4", "5", "6", "7", "8", "9"}

AllDigits(str) == \A i \in 1..Len(str) : Char(str, i) \in Digits

\* _negative_number_matcher, '^-\d+$|^-\d*\.\d+$'; $ also matches before a final newline.
NegativeNumberLike(str) ==
    LET s    == IF Len(str) > 0 /\ Char(str, Len(str)) = "\n"
                THEN SubSeq(str, 1, Len(str) - 1) ELSE str
        rest == SubSeq(s, 2, Len(s))
        dot  == IndexOf(rest, ".", 1)
    IN  /\ Len(s) >= 2
        /\ Char(s, 1) = "-"
        /\ \/ AllDigits(rest)
           \/ /\ dot > 0
              /\ dot < Len(rest)
              /\ AllDigits(SubSeq(rest, 1, dot - 1))
              /\ AllDigits(SubSeq(rest, dot + 1, Len(rest)))

SetMax(S) == CHOOSE x \in S : \A y \in S : y <= x
SetMin(S) == CHOOSE x \in S : \A y \in S : x <= y

\* list.remove(item) when the item is in the list.
RemoveFirst(seq, item) ==
    IF \E k \in 1..Len(seq) : seq[k] = item
    THEN LET at == SetMin({k \in 1..Len(seq) : seq[k] = item})
         IN  SubSeq(seq, 1, at - 1) \o SubSeq(seq, at + 1, Len(seq))
    ELSE seq

\* _get_option_tuples: the option strings an undeclared option-like string may stand
\* for.  A string with two dashes matches every option string it is a prefix of (up to
\* its "="); one with a single dash matches the option string equal to its first two
\* characters, the rest being the value, and every option string it is a prefix of.
_get_option_tuples(parser, option_string) ==
    LET opts  == DOMAIN parser.option_string_actions
        eq    == IndexOf(option_string, "=", 1)
        short == SubSeq(option_string, 1, 2)
    IN  IF Char(option_string, 2) = "-"
        THEN LET option_prefix == IF eq > 0 THEN SubSeq(option_string, 1, eq - 1)
                                  ELSE option_string
                 explicit_arg  == IF eq > 0
                                  THEN Some(SubSeq(option_string, eq + 1, Len(option_string)))
                                  ELSE None
             IN  {[option_string |-> o, explicit_arg |-> explicit_arg] :
                     o \in {q \in opts : StartsWith(q, option_prefix)}}
        ELSE {[option_string |-> o,
               explicit_arg  |-> Some(SubSeq(option_string, 3, Len(option_string)))] :
                 o \in {q \in opts : q = short}}
             \cup
             {[option_string |-> o, explicit_arg |-> None] :
                 o \in {q \in opts : q # short /\ StartsWith(q, option_string)}}

\* _parse_optional, given the option tuples of the string: what an argument string is,
\* "A" (an argument), "O" (an option: its option string, NoValue when the parser has
\* no such option, and its explicit value) or "ambiguous" (parser.error).  No parser
\* here has an option string that looks like a negative number.
ParsedOptional(parser, arg_string, tuples) ==
    LET opts == DOMAIN parser.option_string_actions
        eq   == IndexOf(arg_string, "=", 1)
        arg  == [kind |-> "A", option_string |-> NoValue, explicit_arg |-> None]
    IN  IF arg_string = "" \/ Char(arg_string, 1) # "-" THEN arg
        ELSE IF arg_string \in opts
        THEN [kind |-> "O", option_string |-> arg_string, explicit_arg |-> None]
        ELSE IF Len(arg_string) = 1 THEN arg
        ELSE IF eq > 0 /\ SubSeq(arg_string, 1, eq - 1) \in opts
        THEN [kind |-> "O", option_string |-> SubSeq(arg_string, 1, eq - 1),
              explicit_arg |-> Some(SubSeq(arg_string, eq + 1, Len(arg_string)))]
        ELSE IF Cardinality(tuples) > 1
        THEN [kind |-> "ambiguous", option_string |-> NoValue, explicit_arg |-> None]
        ELSE IF Cardinality(tuples) = 1
        THEN [kind |-> "O", option_string |-> (CHOOSE t \in tuples : TRUE).option_string,
              explicit_arg |-> (CHOOSE t \in tuples : TRUE).explicit_arg]
        ELSE IF NegativeNumberLike(arg_string) THEN arg
        ELSE IF IndexOf(arg_string, " ", 1) > 0 THEN arg
        ELSE [kind |-> "O", option_string |-> NoValue, explicit_arg |-> None]

_parse_optional(parser, arg_string) ==
    ParsedOptional(parser, arg_string, _get_option_tuples(parser, arg_string))

\* arg_strings_pattern with option_string_indices: "--" is "-", and every string
\* after it is an argument.
arg_strings_pattern(parser, arg_strings) ==
    [k \in 1..Len(arg_strings) |->
        IF \E j \in 1..(k - 1) : arg_strings[j] = "--"
        THEN [kind |-> "A", option_string |-> NoValue, explicit_arg |-> None]
        ELSE IF arg_strings[k] = "--"
        THEN [kind |-> "-", option_string |-> NoValue, explicit_arg |-> None]
        ELSE _parse_optional(parser, arg_strings[k])]

\* _get_nargs_pattern of a positional, matched against the pattern from a to b:
\* (-*A-*) for nargs None, (-*A?-*) for "?", (-*[A-]*) for "*".
_get_nargs_pattern(nargs, pattern, a, b) ==
    /\ \A k \in a..b : pattern[k].kind \in {"A", "-"}
    /\ LET count == Cardinality({k \in a..b : pattern[k].kind = "A"})
       IN  CASE nargs = "None" -> count = 1
             [] nargs = "?"    -> count <= 1
             [] nargs = "*"    -> TRUE

RECURSIVE MatchGroups(_, _, _, _)
\* re.match of the nargs patterns of actions[k..] against the pattern from start on:
\* each group takes the most strings that leave a match for the groups after it.
MatchGroups(actions, k, pattern, start) ==
    IF k > Len(actions) THEN [matched |-> TRUE, counts |-> <<>>]
    ELSE LET fits == {n \in 0..(Len(pattern) - start + 1) :
                        /\ _get_nargs_pattern(actions[k].nargs, pattern, start,
                                              start + n - 1)
                        /\ MatchGroups(actions, k + 1, pattern, start + n).matched}
         IN  IF fits = {} THEN [matched |-> FALSE, counts |-> <<>>]
             ELSE [matched |-> TRUE,
                   counts  |-> <<SetMax(fits)>>
                               \o MatchGroups(actions, k + 1, pattern,
                                              start + SetMax(fits)).counts]

\* The counts of the longest slice of the actions that matched.
LongestMatch(matches) ==
    IF \A i \in DOMAIN matches : ~matches[i].matched THEN <<>>
    ELSE matches[SetMax({i \in DOMAIN matches : matches[i].matched})].counts

\* _match_arguments_partial: the counts for the longest run of leading positionals
\* whose patterns match.
_match_arguments_partial(actions, pattern, start) ==
    LongestMatch([i \in 1..Len(actions) |->
                     MatchGroups(SubSeq(actions, 1, i), 1, pattern, start)])

\* parser.error(message): the usage is printed and the process exits with status 2.
parser_error(st) == [st EXCEPT !.exits = TRUE, !.code = 2]

\* The value [] that _get_values gives an action with nargs None when no argument
\* string is left.
EmptyList == "<[]>"

\* take_action with _get_values: the first "--" of the argument strings is removed; an
\* action that is given a value conflicts with a seen action of its mutually exclusive
\* group; help and version print and exit with status 0; the others store into the
\* namespace.
take_action(parser, st, dest, argument_strings) ==
    LET action     == parser.actions[dest]
        strings    == RemoveFirst(argument_strings, "--")
        is_default == action.nargs = "?" /\ strings = <<>>
        conflicts  == IF dest \in DOMAIN parser.conflicts THEN parser.conflicts[dest]
                      ELSE {}
        seen       == IF is_default THEN st.seen_non_default_actions
                      ELSE st.seen_non_default_actions \cup {dest}
    IN  IF ~is_default /\ conflicts \cap st.seen_non_default_actions # {}
        THEN parser_error(st)
        ELSE IF action.kind \in {"help", "version"}
        THEN [st EXCEPT !.exits = TRUE, !.code = 0]
        ELSE IF dest \notin DOMAIN st.namespace
        THEN [st EXCEPT !.seen_non_default_actions = seen]
        ELSE IF action.kind = "store_true"
        THEN [st EXCEPT !.seen_non_default_actions = seen, !.namespace[dest] = TRUE]
        ELSE IF Len(strings) = 1
        THEN [st EXCEPT !.seen_non_default_actions = seen,
                        !.namespace[dest] = strings[1]]
        ELSE [st EXCEPT !.seen_non_default_actions = seen,
                        !.namespace[dest] = EmptyList]

RECURSIVE TakePositionals(_, _, _, _, _)
TakePositionals(parser, arg_strings, st, arg_counts, k) ==
    IF k > Len(arg_counts) \/ st.exits THEN st
    ELSE LET args  == SubSeq(arg_strings, st.start_index,
                             st.start_index + arg_counts[k] - 1)
             taken == take_action(parser, st, parser.positionals[st.consumed + 1], args)
         IN  TakePositionals(parser, arg_strings,
                             [taken EXCEPT !.start_index = st.start_index + arg_counts[k],
                                           !.consumed = st.consumed + 1],
                             arg_counts, k + 1)

\* consume_positionals(start_index): the positionals left that match are taken.
consume_positionals(parser, arg_strings, pattern, st) ==
    LET left == [k \in 1..(Len(parser.positionals) - st.consumed) |->
                    parser.actions[parser.positionals[st.consumed + k]]]
    IN  TakePositionals(parser, arg_strings, st,
                        _match_arguments_partial(left, pattern, st.start_index), 1)

RECURSIVE TakeActions(_, _, _, _)
TakeActions(parser, st, action_tuples, k) ==
    IF k > Len(action_tuples) \/ st.exits THEN st
    ELSE TakeActions(parser,
                     take_action(parser, st, action_tuples[k].dest, action_tuples[k].args),
                     action_tuples, k + 1)

RECURSIVE OptionalLoop(_, _, _, _, _, _, _)
\* The loop of consume_optional: an explicit value is the option's value, or, after
\* a single-dash flag, more single-dash options; without one the value is the next
\* argument string.  The actions are taken when the loop is left.
OptionalLoop(parser, arg_strings, pattern, st, option_string, explicit_arg, action_tuples) ==
    LET dest      == parser.option_string_actions[option_string]
        arg_count == IF parser.actions[dest].kind = "store" THEN 1 ELSE 0
        next      == "-" \o Char(explicit_arg[1], 1)
        rest      == SubSeq(explicit_arg[1], 2, Len(explicit_arg[1]))
        start     == st.start_index + 1
        flags     == explicit_arg # None /\ arg_count = 0
                     /\ Char(option_string, 2) # "-" /\ explicit_arg[1] # ""
        ignored   == IF flags THEN next \notin DOMAIN parser.option_string_actions
                     ELSE explicit_arg # None /\ arg_count = 0
        expected  == explicit_arg = None /\ arg_count = 1
                     /\ ~(start <= Len(arg_strings) /\ pattern[start].kind = "A")
        args      == IF arg_count = 0 THEN <<>>
                     ELSE IF explicit_arg # None THEN <<explicit_arg[1]>>
                     ELSE <<arg_strings[start]>>
        stop      == IF explicit_arg = None THEN start + arg_count ELSE start
    IN  IF ignored \/ expected THEN parser_error(st)
        ELSE IF flags
        THEN OptionalLoop(parser, arg_strings, pattern, st, next,
                          IF rest = "" THEN None ELSE Some(rest),
                          Append(action_tuples, [dest |-> dest, args |-> <<>>]))
        ELSE [TakeActions(parser, st,
                          Append(action_tuples, [dest |-> dest, args |-> args]), 1)
                EXCEPT !.start_index = stop]

\* consume_optional(start_index): an option the parser does not have goes to the
\* extras.
consume_optional(parser, arg_strings, pattern, st) ==
    LET option_tuple == pattern[st.start_index]
    IN  IF option_tuple.option_string = NoValue
        THEN [st EXCEPT !.extras = Append(@, arg_strings[st.start_index]),
                        !.start_index = @ + 1]
        ELSE OptionalLoop(parser, arg_strings, pattern, st, option_tuple.option_string,
                          option_tuple.explicit_arg, <<>>)

RECURSIVE ConsumeAlternately(_, _, _, _)
RECURSIVE AfterPositionals(_, _, _, _, _)
\* The loop of _parse_known_args and what follows it, positioned being the result of
\* consume_positionals(start_index): positionals and optionals are consumed
\* alternately up to the last option string, then the positionals after it; the
\* strings not consumed are extras, and a positional with nargs None that was not
\* given is an error.
AfterPositionals(parser, arg_strings, pattern, st, positioned) ==
    LET option_string_indices == {k \in 1..Len(arg_strings) : pattern[k].kind = "O"}
        max_option_string_index == SetMax(option_string_indices \cup {0})
        next_option_string_index ==
            SetMin({k \in option_string_indices : k >= st.start_index})
        at_option == st.start_index = next_option_string_index
        from == IF at_option THEN st.start_index ELSE positioned.start_index
    IN  IF st.start_index <= max_option_string_index
        THEN IF ~at_option /\ (positioned.exits \/ positioned.start_index > st.start_index)
             THEN ConsumeAlternately(parser, arg_strings, pattern, positioned)
             ELSE ConsumeAlternately(
                      parser, arg_strings, pattern,
                      consume_optional(
                          parser, arg_strings, pattern,
                          [(IF at_option THEN st ELSE positioned) EXCEPT
                              !.extras = @ \o SubSeq(arg_strings, from,
                                                     next_option_string_index - 1),
                              !.start_index = next_option_string_index]))
        ELSE IF positioned.exits THEN positioned
        ELSE IF \E k \in (positioned.consumed + 1)..Len(parser.positionals) :
                   parser.actions[parser.positionals[k]].nargs = "None"
        THEN parser_error(positioned)
        ELSE [positioned EXCEPT !.extras = @ \o SubSeq(arg_strings, positioned.start_index,
                                                       Len(arg_strings))]

ConsumeAlternately(parser, arg_strings, pattern, st) ==
    IF st.exits THEN st
    ELSE AfterPositionals(parser, arg_strings, pattern, st,
                          consume_positionals(parser, arg_strings, pattern, st))

\* _parse_known_args for the pattern of the argument strings: an ambiguous
\* abbreviation is an error before any action is taken.
_parse_known_args(parser, arg_strings, pattern) ==
    IF \E k \in 1..Len(arg_strings) : pattern[k].kind = "ambiguous"
    THEN parser_error([start_index |-> 1, consumed |-> 0, namespace |-> parser.defaults,
                       extras |-> <<>>, seen_non_default_actions |-> {},
                       exits |-> FALSE, code |-> 0])
    ELSE ConsumeAlternately(parser, arg_strings, pattern,
                            [start_index |-> 1, consumed |-> 0,
                             namespace |-> parser.defaults, extras |-> <<>>,
                             seen_non_default_actions |-> {}, exits |-> FALSE, code |-> 0])

\* parser.parse_known_args(args): the namespace, the extras, and whether and how the
\* parser exits.
ArgumentParser_parse_known_args(parser, args) ==
    _parse_known_args(parser, args, arg_strings_pattern(parser, args))

\* parse_args: extras are an error ("unrecognized arguments").
ErrorOnExtras(known) ==
    IF ~known.exits /\ known.extras # <<>> THEN parser_error(known) ELSE known

\* parser.parse_args(args): as parse_known_args, and extras are an error.
ArgumentParser_parse_args(parser, args) ==
    ErrorOnExtras(ArgumentParser_parse_known_args(parser, args))

HelpOptions == ("-h" :> "help") @@ ("--help" :> "help")
HelpAction  == [kind |-> "help", nargs |-> "0", positional |-> FALSE]

\* Main.parser (cli.py lines 85-104).
MainParser ==
    [option_string_actions |->
        HelpOptions @@ ("-V" :> "version") @@ ("--version" :> "version")
        @@ ("-l" :> "list") @@ ("--list" :> "list")
        @@ ("-m" :> "module") @@ ("--module" :> "module")
        @@ ("-g" :> "use_global") @@ ("--global" :> "use_global"),
     actions |->
        [help       |-> HelpAction,
         version    |-> [kind |-> "version", nargs |-> "0", positional |-> FALSE],
         list       |-> [kind |-> "store_true", nargs |-> "0", positional |-> FALSE],
         module     |-> [kind |-> "store", nargs |-> "None", positional |-> FALSE],
         use_global |-> [kind |-> "store_true", nargs |-> "0", positional |-> FALSE],
         task       |-> [kind |-> "store", nargs |-> "?", positional |-> TRUE],
         args       |-> [kind |-> "store", nargs |-> "*", positional |-> TRUE]],
     positionals |-> <<"task", "args">>,
     conflicts   |-> [module |-> {"use_global"}, use_global |-> {"module"}],
     defaults    |-> [list |-> FALSE, module |-> NoValue, use_global |-> FALSE]]

\* self.parser.parse_args(main_args) (cli.py line 108): the namespace attributes that
\* Main.__call__ reads.
MainNamespace(parsed) ==
    [list |-> parsed.namespace.list, module |-> parsed.namespace.module,
     use_global |-> parsed.namespace.use_global,
     exits |-> parsed.exits, code |-> parsed.code]

ParseMainArgs(main_args) == MainNamespace(ArgumentParser_parse_args(MainParser, main_args))

\* The parser of a task that declares no arguments (Task.get_parser, add_args).
PlainTaskParser ==
    [option_string_actions |-> HelpOptions,
     actions     |-> [help |-> HelpAction],
     positionals |-> <<>>,
     conflicts   |-> <<>>,
     defaults    |-> <<>>]

\* Task.parse_args (tasks.py lines 328-333).
Task_parse_args(parser, args, allow_unknown_args) ==
    IF allow_unknown_args
    THEN ArgumentParser_parse_known_args(parser, args)
    ELSE [ArgumentParser_parse_args(parser, args) EXCEPT !.extras = <<>>]

\* How main ends when Main.__call__ raises the MomError exc (lines 61-65).
MomErrorSwallowed(exc, code) ==
    [kind |-> "exit", exit_code |-> 0, raised |-> NoValue, listed |-> {}]

MomErrorOutcome(exc, code) ==
    IF cliIn.raise_error
    THEN [kind |-> "raise", exit_code |-> 0, raised |-> exc, listed |-> {}]
    ELSE [kind |-> "exit", exit_code |-> code, raised |-> NoValue, listed |-> {}]

\* An exception that is no MomError leaves main as it is; SystemExit carries the code.
Escapes(exc) == [kind |-> "raise", exit_code |-> 0, raised |-> exc, listed |-> {}]
SystemExit(code, listed) ==
    [kind |-> "exit", exit_code |-> code, raised |-> NoValue, listed |-> listed]

\* Main.get_task (lines 203-209): the lookup and the construction are both inside the
\* try block whose KeyError becomes TaskNotFoundError.
get_task(task_name) ==
    LET got == get_task_class(store, global_namespace, task_name)
    IN  IF got.raised = "KeyError"
        THEN [raised |-> "TaskNotFoundError", instance |-> NoTask]
        ELSE IF cliIn.ctor_raises = "KeyError"
        THEN [raised |-> "TaskNotFoundError", instance |-> NoTask]
        ELSE IF cliIn.ctor_raises # NoValue
        THEN [raised |-> cliIn.ctor_raises, instance |-> NoTask]
        ELSE [raised |-> NoValue, instance |-> [cls |-> got.value, name |-> task_name]]

Tokens == {"-l", "x", "a:x", "--opt", ""}

RECURSIVE SeqsUpTo(_, _)
SeqsUpTo(S, n) ==
    IF n = 0 THEN {<<>>}
    ELSE LET shorter == SeqsUpTo(S, n - 1)
         IN  shorter \cup {Append(q, t) : q \in {r \in shorter : Len(r) = n - 1}, t \in S}

LeafModule(m) ==
    [has_namespaces |-> FALSE, MOM_NAMESPACES |-> <<>>,
     dict |-> <<TaskClass(m \o "Task", <<"x">>, TRUE, FALSE)>>]

\* The task modules the CLI is run on: the root with at most one sub-module.
CliModuleGraphs ==
    {("M" :> dm) @@ ("S" :> LeafModule("S")) @@ ("T" :> LeafModule("T")) :
        dm \in {d \in ModuleDescriptions("M") :
                  Len(d.MOM_NAMESPACES) <= 1
                  /\ \A i \in 1..Len(d.MOM_NAMESPACES) : d.MOM_NAMESPACES[i][2] = "S"}}

CtorOutcomes == {NoValue, "KeyError", "TypeError"}

\* The exceptions of its own that the run of the task may raise.
RunExceptions == {"RuntimeError"}

InitCli ==
    /\ store = EmptyStore
    /\ regLog = <<>>
    /\ lastGet = NoGet
    /\ mods \in CliModuleGraphs
    /\ modules = <<>>
    /\ handled_modules = {}
    /\ loadPc = "idle"
    /\ cliIn \in [argv : SeqsUpTo(Tokens, MaxArgv), raise_error : BOOLEAN,
                  module_found : BOOLEAN, ctor_raises : CtorOutcomes,
                  allow_unknown_args : BOOLEAN]
    /\ cliPc = "start"
    /\ cliOut = NoOutcome
    /\ task = NoTask
    /\ ran = <<>>
    /\ OtherIdle

Partitioned == _partition_args(cliIn.argv)
MainArgs    == ParseMainArgs(Partitioned.main_args)

\* Main.__call__ up to load_tasks (lines 110-120); Path(main_args.module) raises
\* TypeError for a module that is no string.
CliStart ==
    /\ cliPc = "start"
    /\ IF MainArgs.exits
       THEN /\ cliPc' = "ended"
            /\ cliOut' = SystemExit(MainArgs.code, {})
            /\ UNCHANGED <<modules, loadPc>>
       ELSE IF MainArgs.module = EmptyList
       THEN /\ cliPc' = "ended"
            /\ cliOut' = Escapes("TypeError")
            /\ UNCHANGED <<modules, loadPc>>
       ELSE IF MainArgs.module = NoValue /\ ~MainArgs.use_global /\ ~cliIn.module_found
       THEN /\ cliPc' = "ended"
            /\ cliOut' = MomErrorOutcome("TasksModuleNotFoundError", 2)
            /\ UNCHANGED <<modules, loadPc>>
       ELSE /\ cliPc' = "loading"
            /\ modules' = <<[module |-> RootModule, namespace |-> global_namespace]>>
            /\ loadPc' = "loading"
            /\ UNCHANGED cliOut
    /\ UNCHANGED <<nsVars, mods, handled_modules, cliIn, task, ran, otherVars>>

\* self.load_tasks(path=...) (line 120) is a plain call: Main.__call__ goes on when
\* load_tasks_from_module has returned.
load_tasks_entered == loadPc # "idle"

load_tasks_returned == loadPc = "done"

\* Main.__call__ after load_tasks, up to the call of the task (lines 122-128, 211-213).
CliDispatch ==
    /\ cliPc = "loading"
    /\ load_tasks_returned
    /\ IF MainArgs.list
       THEN /\ cliPc' = "ended"
            /\ cliOut' = SystemExit(0, DOMAIN store)
            /\ UNCHANGED <<task, lastGet>>
       ELSE IF Partitioned.task_name # NoValue
       THEN LET got == get_task(Partitioned.task_name)
            IN  /\ lastGet' = [ns |-> global_namespace, name |-> Partitioned.task_name]
                                @@ get_task_class(store, global_namespace,
                                                  Partitioned.task_name)
                /\ IF got.raised = "TaskNotFoundError"
                   THEN /\ cliPc' = "ended"
                        /\ cliOut' = MomErrorOutcome("TaskNotFoundError", 1)
                        /\ UNCHANGED task
                   ELSE IF got.raised # NoValue
                   THEN /\ cliPc' = "ended"
                        /\ cliOut' = Escapes(got.raised)
                        /\ UNCHANGED task
                   ELSE /\ cliPc' = "running"
                        /\ task' = got.instance
                        /\ UNCHANGED cliOut
       ELSE /\ cliPc' = "ended"
            /\ cliOut' = SystemExit(0, {})
            /\ UNCHANGED <<task, lastGet>>
    /\ UNCHANGED <<store, regLog, loadVars, cliIn, ran, otherVars>>

\* run_task calls task(args), which is Task.__call__ (tasks.py lines 352-357): the
\* parser of the task, which declares no arguments, parses args and exits with status
\* 2 on an unrecognized argument (0 for its help option); otherwise run is entered
\* with the extras.
CliTaskCalled ==
    /\ cliPc = "running"
    /\ LET parsed == Task_parse_args(PlainTaskParser, Partitioned.task_args,
                                     cliIn.allow_unknown_args)
       IN  /\ ran' = Append(ran, [cls |-> task.cls, name |-> task.name,
                                  args |-> Partitioned.task_args,
                                  run_invoked |-> ~parsed.exits,
                                  run_args |-> IF parsed.exits THEN <<>>
                                               ELSE parsed.extras])
           /\ IF parsed.exits
              THEN /\ cliPc' = "ended"
                   /\ cliOut' = SystemExit(parsed.code, {})
              ELSE /\ cliPc' = "run"
                   /\ UNCHANGED cliOut
    /\ UNCHANGED <<nsVars, loadVars, cliIn, task, otherVars>>

\* run returns, task(args) returns and Main.__call__ ends with self.parser.exit()
\* (lines 214, 128).
CliTaskReturns ==
    /\ cliPc = "run"
    /\ cliPc' = "ended"
    /\ cliOut' = SystemExit(0, {})
    /\ UNCHANGED <<nsVars, loadVars, cliIn, task, ran, otherVars>>

\* run raises an exception that is no MomError: it leaves task(args), Main.__call__
\* and main (lines 61-65 catch MomError only).
CliTaskRaises ==
    /\ cliPc = "run"
    /\ \E exc \in RunExceptions :
          cliOut' = Escapes(exc)
    /\ cliPc' = "ended"
    /\ UNCHANGED <<nsVars, loadVars, cliIn, task, ran, otherVars>>

NextCli ==
    \/ CliStart
    \/ LoadExpand
    \/ LoadRegister
    \/ LoadReturn
    \/ CliDispatch
    \/ CliTaskCalled
    \/ CliTaskReturns
    \/ CliTaskRaises

SpecCli == InitCli /\ [][NextCli]_vars

(***************************************************************************)
(* Task call protocol (task_mom/tasks.py, Task.parse_args and __call__),   *)
(* for the task of the tests: a positional arg1 and an option --arg2/-a2   *)
(* taking one value; run returns its arguments.                            *)
(***************************************************************************)
MaxCallArgv == 4      \* tokens of the argv given to Task.__call__

CallTokens == {"v1", "v3", "--arg2", "--zz"}
DeclaredOptions == {"--arg2", "-a2"}

\* The parser of the tests' task (test_tasks.py lines 52-54, with the help option of
\* Task.get_parser).
MyTaskParser ==
    [option_string_actions |-> HelpOptions @@ ("--arg2" :> "arg2") @@ ("-a2" :> "arg2"),
     actions |->
        [help |-> HelpAction,
         arg1 |-> [kind |-> "store", nargs |-> "None", positional |-> TRUE],
         arg2 |-> [kind |-> "store", nargs |-> "None", positional |-> FALSE]],
     positionals |-> <<"arg1">>,
     conflicts   |-> <<>>,
     defaults    |-> [arg1 |-> NoValue, arg2 |-> NoValue]]

\* vars(parsed_args) and the extras of a parse of the tests' task.
Parsed(parsed) ==
    [arg1 |-> parsed.namespace.arg1, arg2 |-> parsed.namespace.arg2,
     extra |-> parsed.extras, exits |-> parsed.exits, code |-> parsed.code]

\* parser.parse_known_args(args) of the tests' task.
parse_known_args(args) == Parsed(ArgumentParser_parse_known_args(MyTaskParser, args))

\* parser.parse_args(args) of the tests' task.
parser_parse_args(args) == Parsed(ArgumentParser_parse_args(MyTaskParser, args))

parse_args_dropping_extra(args, allow_unknown_args) ==
    IF allow_unknown_args
    THEN parse_known_args(args)
    ELSE [parse_known_args(args) EXCEPT !.extra = <<>>]

\* Task.parse_args (lines 328-333) of the tests' task.
parse_args(args, allow_unknown_args) ==
    Parsed(Task_parse_args(MyTaskParser, args, allow_unknown_args))

\* The run of the tests' task: `return args, kwargs`.
run_result(args, kwargs) == [args |-> args, kwargs |-> kwargs]

NoCallOut ==
    [exit_code |-> 0, run_invoked |-> 0, run_args |-> <<>>,
     run_kwargs |-> [arg1 |-> NoValue, arg2 |-> NoValue],
     result |-> run_result(<<>>, [arg1 |-> NoValue, arg2 |-> NoValue])]

InitCall ==
    /\ store = EmptyStore
    /\ regLog = <<>>
    /\ lastGet = NoGet
    /\ mods = <<>>
    /\ modules = <<>>
    /\ handled_modules = {}
    /\ loadPc = "idle"
    /\ CliIdle
    /\ callIn \in [argv : SeqsUpTo(CallTokens, MaxCallArgv), allow_unknown_args : BOOLEAN]
    /\ callPc = "called"
    /\ callOut = NoCallOut
    /\ GroupIdle
    /\ ContextIdle
    /\ ExtIdle

\* Task.__call__ up to the call of run (lines 354-357): parse_args, then run(*extra,
\* **vars(parsed_args)) is entered, unless the parser exits.
CallParse ==
    /\ callPc = "called"
    /\ LET parsed == parse_args(callIn.argv, callIn.allow_unknown_args)
       IN  IF parsed.exits
           THEN /\ callPc' = "exited"
                /\ callOut' = [callOut EXCEPT !.exit_code = parsed.code]
           ELSE /\ callPc' = "running"
                /\ callOut' = [callOut EXCEPT
                                  !.run_invoked = @ + 1,
                                  !.run_args = parsed.extra,
                                  !.run_kwargs = [arg1 |-> parsed.arg1, arg2 |-> parsed.arg2]]
    /\ UNCHANGED <<nsVars, loadVars, cliVars, extVars, callIn, grpVars, ctxVars>>

\* run returns and __call__ returns its result (line 357).
CallRunReturns ==
    /\ callPc = "running"
    /\ callPc' = "returned"
    /\ callOut' = [callOut EXCEPT !.result = run_result(callOut.run_args, callOut.run_kwargs)]
    /\ UNCHANGED <<nsVars, loadVars, cliVars, extVars, callIn, grpVars, ctxVars>>

NextCall == CallParse \/ CallRunReturns

SpecCall == InitCall /\ [][NextCall]_vars

(***************************************************************************)
(* Task groups (task_mom/tasks.py): member tasks.  The runs of the member  *)
(* tasks are those of the tests: a task that appends a token and returns,  *)
(* one that appends and raises, and the two tasks of the busy-wait         *)
(* handshake (Task1 waits for the list to be non-empty and appends         *)
(* "Second"; Task2 appends "First", waits for two items, appends "Third"). *)
(***************************************************************************)
MaxSerialMembers == 3      \* member tasks of a serial group
MaxThreadMembers == 2      \* member tasks of a thread group
MaxWorkers == 2            \* the largest max_workers given to a thread group

MemberKinds == {"ok", "raise", "Task1", "Task2"}

Op(op, token) == [op |-> op, token |-> token]

\* The statements of a member's run, and how the run ends.
Body(kind) ==
    CASE kind = "ok"    -> <<Op("append", "done")>>
      [] kind = "raise" -> <<Op("append", "partial")>>
      [] kind = "Task1" -> <<Op("wait_nonempty", ""), Op("append", "Second")>>
      [] kind = "Task2" -> <<Op("append", "First"), Op("wait_len_2", ""),
                             Op("append", "Third")>>

Ending(kind) == IF kind = "raise" THEN "raised" ELSE "returned"

\* _TaskGroup.get_tasks (line 498): one instance per task class, in order.
get_tasks(task_classes) ==
    [i \in 1..Len(task_classes) |->
        [kind |-> task_classes[i], state |-> "new", at |-> 1, runs |-> 0]]

\* run_task(task) enters the run of member i (lines 500-508).
EnterRun(i) ==
    members' = [members EXCEPT ![i].state = "running", ![i].runs = @ + 1]

\* One statement of the run of member i; a busy-wait whose condition does not hold
\* spins without changing anything.
MemberStep(i) ==
    /\ members[i].state = "running"
    /\ members[i].at <= Len(Body(members[i].kind))
    /\ LET stmt == Body(members[i].kind)[members[i].at]
       IN  CASE stmt.op = "append" ->
                  sink' = Append(sink, [member |-> i, token |-> stmt.token])
             [] stmt.op = "wait_nonempty" ->
                  sink # <<>> /\ UNCHANGED sink
             [] stmt.op = "wait_len_2" ->
                  Len(sink) = 2 /\ UNCHANGED sink
    /\ members' = [members EXCEPT ![i].at = @ + 1]

AtEnd(i) ==
    /\ members[i].state = "running"
    /\ members[i].at > Len(Body(members[i].kind))

Finished(i) == members[i].state \in {"returned", "raised"}

InitGroup(kind, task_lists, worker_limits) ==
    /\ store = EmptyStore
    /\ regLog = <<>>
    /\ lastGet = NoGet
    /\ mods = <<>>
    /\ modules = <<>>
    /\ handled_modules = {}
    /\ loadPc = "idle"
    /\ CliIdle
    /\ CallIdle
    /\ grpIn \in [kind : {kind}, task_classes : task_lists, max_workers : worker_limits]
    /\ grpPc = [pc |-> "start", idx |-> 0]
    /\ members = <<>>
    /\ sink = <<>>
    /\ grpOut = NoGroupOut
    /\ pool = EmptyPool
    /\ workers = <<>>
    /\ observed = {}
    /\ ContextIdle
    /\ ExtIdle

(***************************************************************************)
(* SerialTaskGroup.run (lines 514-517)                                     *)
(***************************************************************************)
\* The member run in the k-th iteration of the for loop.
LoopMemberReversed(n, k) == n + 1 - k

LoopMember(n, k) == k

\* Where the group's run goes on when the run of a member has ended.
AfterMemberIgnoringRaise(k, ending) == [pc |-> "loop", idx |-> k + 1]

AfterMember(k, ending) ==
    IF ending = "raised"
    THEN [pc |-> "raised", idx |-> k]
    ELSE [pc |-> "loop", idx |-> k + 1]

InitSerial == InitGroup("serial", SeqsUpTo(MemberKinds, MaxSerialMembers), {0})

CurrentMember == LoopMember(Len(members), grpPc.idx)

SerialGetTasks ==
    /\ grpIn.kind = "serial"
    /\ grpPc.pc = "start"
    /\ members' = get_tasks(grpIn.task_classes)
    /\ grpPc' = [pc |-> "loop", idx |-> 1]
    /\ UNCHANGED <<nsVars, loadVars, cliVars, extVars, callVars, grpIn, sink, grpOut, pool, workers,
                   observed, ctxVars>>

SerialRunTask ==
    /\ grpIn.kind = "serial"
    /\ grpPc.pc = "loop"
    /\ grpPc.idx <= Len(members)
    /\ EnterRun(CurrentMember)
    /\ grpPc' = [grpPc EXCEPT !.pc = "in_run"]
    /\ UNCHANGED <<nsVars, loadVars, cliVars, extVars, callVars, grpIn, sink, grpOut, pool, workers,
                   observed, ctxVars>>

SerialMemberStep ==
    /\ grpIn.kind = "serial"
    /\ grpPc.pc = "in_run"
    /\ MemberStep(CurrentMember)
    /\ UNCHANGED <<nsVars, loadVars, cliVars, extVars, callVars, grpIn, grpPc, grpOut, pool, workers,
                   observed, ctxVars>>

SerialMemberEnds ==
    /\ grpIn.kind = "serial"
    /\ grpPc.pc = "in_run"
    /\ AtEnd(CurrentMember)
    /\ LET ending == Ending(members[CurrentMember].kind)
       IN  /\ members' = [members EXCEPT ![CurrentMember].state = ending]
           /\ grpPc' = AfterMember(grpPc.idx, ending)
           /\ grpOut' = IF AfterMember(grpPc.idx, ending).pc = "raised"
                        THEN [grpOut EXCEPT !.raised_by = CurrentMember]
                        ELSE grpOut
    /\ UNCHANGED <<nsVars, loadVars, cliVars, extVars, callVars, grpIn, sink, pool, workers,
                   observed, ctxVars>>

SerialReturn ==
    /\ grpIn.kind = "serial"
    /\ grpPc.pc = "loop"
    /\ grpPc.idx > Len(members)
    /\ grpPc' = [grpPc EXCEPT !.pc = "returned"]
    /\ UNCHANGED <<nsVars, loadVars, cliVars, extVars, callVars, grpIn, members, sink, grpOut, pool,
                   workers, observed, ctxVars>>

NextSerial ==
    SerialGetTasks \/ SerialRunTask \/ SerialMemberStep \/ SerialMemberEnds \/ SerialReturn

SpecSerial == InitSerial /\ [][NextSerial]_vars

(***************************************************************************)
(* ThreadTaskGroup.run (lines 530-543): the members are submitted to a     *)
(* ThreadPoolExecutor, as_completed yields their futures as they finish,   *)
(* future.result() re-raises a member's exception, and leaving the with    *)
(* statement joins the executor's threads.                                 *)
(***************************************************************************)
\* max_workers = None leaves the executor's default, min(32, cpu_count + 4), which is
\* 5 with one CPU; None is written 0 (the executor accepts no max_workers below 1).
DefaultMaxWorkers == 5

SingleWorker(given) == 1

\* ThreadPoolExecutor.__init__: the size of the pool for get_max_workers()'s value.
ExecutorMaxWorkers(given) == IF given = 0 THEN DefaultMaxWorkers ELSE given

\* The None that shutdown puts in the work queue, whose other items are the indices
\* of the members submitted.
WakeUp == 0

\* shutdown(wait=True) joins every worker thread.
JoinedWithoutWaiting == TRUE

Joined == \A w \in DOMAIN workers : workers[w].pc = "exited"

InitThread ==
    InitGroup("thread", SeqsUpTo(MemberKinds, MaxThreadMembers), 0..MaxWorkers)

\* tasks = self.get_tasks(); the executor is constructed.
ThreadGetTasks ==
    /\ grpIn.kind = "thread"
    /\ grpPc.pc = "start"
    /\ members' = get_tasks(grpIn.task_classes)
    /\ grpPc' = [pc |-> "submit", idx |-> 1]
    /\ UNCHANGED <<nsVars, loadVars, cliVars, extVars, callVars, grpIn, sink, grpOut, pool, workers,
                   observed, ctxVars>>

\* executor.submit(self.run_task, task), to self._work_queue.put(w): the work item
\* is queued.  The queue's lock is released, so the worker threads can take the item
\* before the main thread goes on.
ThreadSubmit ==
    /\ grpIn.kind = "thread"
    /\ grpPc.pc = "submit"
    /\ grpPc.idx <= Len(members)
    /\ pool' = [pool EXCEPT !.work_queue = Append(@, grpPc.idx)]
    /\ grpPc' = [grpPc EXCEPT !.pc = "adjust"]
    /\ UNCHANGED <<nsVars, loadVars, cliVars, extVars, callVars, grpIn, members, sink, grpOut,
                   workers, observed, ctxVars>>

\* _adjust_thread_count: self._idle_semaphore.acquire(timeout=0) takes a unit of the
\* semaphore and submit returns; when there is none, submit returns if the pool has
\* max_workers threads, and starts a thread otherwise.
AdjustAcquire ==
    /\ grpIn.kind = "thread"
    /\ grpPc.pc = "adjust"
    /\ IF pool.idle_semaphore > 0
       THEN /\ pool' = [pool EXCEPT !.idle_semaphore = @ - 1]
            /\ grpPc' = [pc |-> "submit", idx |-> grpPc.idx + 1]
       ELSE /\ UNCHANGED pool
            /\ grpPc' = IF Len(workers) < ExecutorMaxWorkers(grpIn.max_workers)
                        THEN [grpPc EXCEPT !.pc = "start_thread"]
                        ELSE [pc |-> "submit", idx |-> grpPc.idx + 1]
    /\ UNCHANGED <<nsVars, loadVars, cliVars, extVars, callVars, grpIn, members, sink, grpOut,
                   workers, observed, ctxVars>>

\* _adjust_thread_count: t.start(); self._threads.add(t), and submit returns.
AdjustStartThread ==
    /\ grpIn.kind = "thread"
    /\ grpPc.pc = "start_thread"
    /\ workers' = Append(workers, [pc |-> "get", item |-> 0])
    /\ grpPc' = [pc |-> "submit", idx |-> grpPc.idx + 1]
    /\ UNCHANGED <<nsVars, loadVars, cliVars, extVars, callVars, grpIn, members, sink, grpOut,
                   pool, observed, ctxVars>>

\* Every member is submitted: the for loop over as_completed(futures) begins.
ThreadSubmitted ==
    /\ grpIn.kind = "thread"
    /\ grpPc.pc = "submit"
    /\ grpPc.idx > Len(members)
    /\ grpPc' = [grpPc EXCEPT !.pc = "as_completed"]
    /\ UNCHANGED <<nsVars, loadVars, cliVars, extVars, callVars, grpIn, members, sink, grpOut, pool,
                   workers, observed, ctxVars>>

\* _worker: work_queue.get_nowait(), or the blocking get of a thread that found the
\* queue empty, hands the thread the first item of the queue: a work item, or None.
WorkerGet(w) ==
    /\ workers[w].pc \in {"get", "blocked"}
    /\ pool.work_queue # <<>>
    /\ workers' = [workers EXCEPT ![w] =
                      [pc   |-> IF Head(pool.work_queue) = WakeUp THEN "none" ELSE "run",
                       item |-> Head(pool.work_queue)]]
    /\ pool' = [pool EXCEPT !.work_queue = Tail(@)]
    /\ UNCHANGED <<nsVars, loadVars, cliVars, extVars, callVars, grpIn, grpPc, members, sink, grpOut,
                   observed, ctxVars>>

\* _worker: work_item.run() calls run_task(task).
WorkerRun(w) ==
    /\ workers[w].pc = "run"
    /\ members[workers[w].item].state = "new"
    /\ EnterRun(workers[w].item)
    /\ UNCHANGED <<nsVars, loadVars, cliVars, extVars, callVars, grpIn, grpPc, sink, grpOut, pool, workers,
                   observed, ctxVars>>

WorkerMemberStep(w) ==
    /\ workers[w].pc = "run"
    /\ MemberStep(workers[w].item)
    /\ UNCHANGED <<nsVars, loadVars, cliVars, extVars, callVars, grpIn, grpPc, grpOut, pool, workers,
                   observed, ctxVars>>

\* _WorkItem.run: the future gets the member's result or its exception, and the
\* thread goes back to get_nowait() (without releasing the semaphore).
WorkerMemberEnds(w) ==
    /\ workers[w].pc = "run"
    /\ AtEnd(workers[w].item)
    /\ members' = [members EXCEPT
                      ![workers[w].item].state = Ending(members[workers[w].item].kind)]
    /\ workers' = [workers EXCEPT ![w] = [pc |-> "get", item |-> 0]]
    /\ UNCHANGED <<nsVars, loadVars, cliVars, extVars, callVars, grpIn, grpPc, sink, grpOut, pool,
                   observed, ctxVars>>

\* _worker: get_nowait() raises queue.Empty.
WorkerEmpty(w) ==
    /\ workers[w].pc = "get"
    /\ pool.work_queue = <<>>
    /\ workers' = [workers EXCEPT ![w] = [pc |-> "empty", item |-> 0]]
    /\ UNCHANGED <<nsVars, loadVars, cliVars, extVars, callVars, grpIn, grpPc, members, sink, grpOut, pool,
                   observed, ctxVars>>

\* _worker, in the handler of queue.Empty: executor._idle_semaphore.release(), and
\* then the thread blocks in work_queue.get(block=True).
WorkerRelease(w) ==
    /\ workers[w].pc = "empty"
    /\ pool' = [pool EXCEPT !.idle_semaphore = @ + 1]
    /\ workers' = [workers EXCEPT ![w] = [pc |-> "blocked", item |-> 0]]
    /\ UNCHANGED <<nsVars, loadVars, cliVars, extVars, callVars, grpIn, grpPc, members, sink, grpOut,
                   observed, ctxVars>>

\* _worker, with None for a work item: when executor._shutdown is set the thread puts
\* None back in the queue for the other threads and returns (without releasing the
\* semaphore); otherwise it goes back to get_nowait().
WorkerExit(w) ==
    /\ workers[w].pc = "none"
    /\ IF pool.shutdown
       THEN /\ pool' = [pool EXCEPT !.work_queue = Append(@, WakeUp)]
            /\ workers' = [workers EXCEPT ![w] = [pc |-> "exited", item |-> 0]]
       ELSE /\ UNCHANGED pool
            /\ workers' = [workers EXCEPT ![w] = [pc |-> "get", item |-> 0]]
    /\ UNCHANGED <<nsVars, loadVars, cliVars, extVars, callVars, grpIn, grpPc, members, sink, grpOut,
                   observed, ctxVars>>

\* as_completed yields a finished future; future.result() returns, or raises the
\* member's exception, which leaves the loop.
ThreadResult(i) ==
    /\ grpIn.kind = "thread"
    /\ grpPc.pc = "as_completed"
    /\ i \notin observed
    /\ Finished(i)
    /\ observed' = observed \cup {i}
    /\ IF members[i].state = "raised"
       THEN /\ grpOut' = [grpOut EXCEPT !.raised_by = i]
            /\ grpPc' = [grpPc EXCEPT !.pc = "shutdown"]
       ELSE UNCHANGED <<grpOut, grpPc>>
    /\ UNCHANGED <<nsVars, loadVars, cliVars, extVars, callVars, grpIn, members, sink, pool, workers,
                   ctxVars>>

\* as_completed is exhausted: every future was yielded.
ThreadLoopDone ==
    /\ grpIn.kind = "thread"
    /\ grpPc.pc = "as_completed"
    /\ observed = DOMAIN members
    /\ grpPc' = [grpPc EXCEPT !.pc = "shutdown"]
    /\ UNCHANGED <<nsVars, loadVars, cliVars, extVars, callVars, grpIn, members, sink, grpOut, pool,
                   workers, observed, ctxVars>>

\* The with statement is left, ThreadPoolExecutor.__exit__ calls shutdown(wait=True):
\* self._shutdown = True
ThreadShutdown ==
    /\ grpIn.kind = "thread"
    /\ grpPc.pc = "shutdown"
    /\ pool' = [pool EXCEPT !.shutdown = TRUE]
    /\ grpPc' = [grpPc EXCEPT !.pc = "wake_up"]
    /\ UNCHANGED <<nsVars, loadVars, cliVars, extVars, callVars, grpIn, members, sink, grpOut,
                   workers, observed, ctxVars>>

\* shutdown: self._work_queue.put(None), which wakes a thread that is blocked in
\* get(block=True); then the threads are joined.
ThreadWakeUp ==
    /\ grpIn.kind = "thread"
    /\ grpPc.pc = "wake_up"
    /\ pool' = [pool EXCEPT !.work_queue = Append(@, WakeUp)]
    /\ grpPc' = [grpPc EXCEPT !.pc = "join"]
    /\ UNCHANGED <<nsVars, loadVars, cliVars, extVars, callVars, grpIn, members, sink, grpOut,
                   workers, observed, ctxVars>>

\* shutdown has joined every thread: run returns, or the pending exception propagates.
ThreadExit ==
    /\ grpIn.kind = "thread"
    /\ grpPc.pc = "join"
    /\ Joined
    /\ grpPc' = [grpPc EXCEPT !.pc = IF grpOut.raised_by # 0 THEN "raised" ELSE "returned"]
    /\ UNCHANGED <<nsVars, loadVars, cliVars, extVars, callVars, grpIn, members, sink, grpOut, pool,
                   workers, observed, ctxVars>>

NextThread ==
    \/ ThreadGetTasks
    \/ ThreadSubmit
    \/ AdjustAcquire
    \/ AdjustStartThread
    \/ ThreadSubmitted
    \/ \E w \in DOMAIN workers : WorkerGet(w)
    \/ \E w \in DOMAIN workers : WorkerRun(w)
    \/ \E w \in DOMAIN workers : WorkerMemberStep(w)
    \/ \E w \in DOMAIN workers : WorkerMemberEnds(w)
    \/ \E w \in DOMAIN workers : WorkerEmpty(w)
    \/ \E w \in DOMAIN workers : WorkerRelease(w)
    \/ \E w \in DOMAIN workers : WorkerExit(w)
    \/ \E i \in DOMAIN members : ThreadResult(i)
    \/ ThreadLoopDone
    \/ ThreadShutdown
    \/ ThreadWakeUp
    \/ ThreadExit

SpecThread == InitThread /\ [][NextThread]_vars

(***************************************************************************)
(* Context (task_mom/context.py) and the context of a task instance        *)
(* (Task.__init__, tasks.py lines 232-254).  A Context object is an entry  *)
(* of the heap `contexts`; a reference to it is its index.                 *)
(***************************************************************************)
MaxContexts == 4           \* Context objects constructed in a run

Cwds == {"/", "/tmp"}
Envs == {"env0", "env1"}
\* Context.__init__ with the defaults: os.getcwd() and os.environ.
DefaultContext == [cwd |-> "/", env |-> "env0"]

\* Context.copy (lines 46-55): a new Context object with the same field values.
copy_same_object(heap, ref) == [heap |-> heap, ref |-> ref]

copy(heap, ref) ==
    [heap |-> Append(heap, [cwd |-> heap[ref].cwd, env |-> heap[ref].env]),
     ref  |-> Len(heap) + 1]

\* GlobalContext.get (lines 67-72): the singleton, constructed at the first call.
GlobalContext_get(heap, inst) ==
    IF inst = 0
    THEN [heap |-> Append(heap, DefaultContext), ref |-> Len(heap) + 1]
    ELSE [heap |-> heap, ref |-> inst]

\* Task.__init__ (lines 248-251): self.context is a copy of the context given, or of
\* the global context when none (0) is given.
Task__init__(heap, inst, given) ==
    LET src    == IF given = 0 THEN GlobalContext_get(heap, inst)
                               ELSE [heap |-> heap, ref |-> given]
        copied == copy(src.heap, src.ref)
    IN  [heap      |-> copied.heap,
         _instance |-> IF given = 0 THEN src.ref ELSE inst,
         context   |-> copied.ref,
         source    |-> src.ref]

TaskInstance(cls, context, source, group) ==
    [cls |-> cls, context |-> context, source |-> source, group |-> group]

RECURSIVE MakeMembers(_, _, _, _)
\* _TaskGroup.get_tasks (line 498): n members, each task_cls(context=self.context).
MakeMembers(heap, insts, g, n) ==
    IF n = 0 THEN [heap |-> heap, insts |-> insts]
    ELSE LET made == Task__init__(heap, _instance, insts[g].context)
         IN  MakeMembers(made.heap,
                         Append(insts, TaskInstance("member", made.context, made.source, g)),
                         g, n - 1)

InitCtx ==
    /\ store = EmptyStore
    /\ regLog = <<>>
    /\ lastGet = NoGet
    /\ mods = <<>>
    /\ modules = <<>>
    /\ handled_modules = {}
    /\ loadPc = "idle"
    /\ CliIdle
    /\ CallIdle
    /\ GroupIdle
    /\ ContextIdle
    /\ ExtIdle

\* Context(cwd=..., env=...) constructed by the caller.
NewContext(cwd, env) ==
    /\ Len(contexts) < MaxContexts
    /\ contexts' = Append(contexts, [cwd |-> cwd, env |-> env])
    /\ UNCHANGED <<nsVars, loadVars, cliVars, extVars, callVars, grpVars, _instance, instances>>

\* GlobalContext.get(), or GlobalContext(), whose __new__ returns cls.get(), called
\* by itself: the first call constructs the singleton, every call returns it.
GlobalContextGet ==
    LET got == GlobalContext_get(contexts, _instance)
    IN  /\ Len(got.heap) <= MaxContexts
        /\ contexts' = got.heap
        /\ _instance' = got.ref
        /\ UNCHANGED <<nsVars, loadVars, cliVars, extVars, callVars, grpVars, instances>>

\* ref.copy() called by itself on a Context object.
ContextCopy(ref) ==
    /\ Len(contexts) < MaxContexts
    /\ contexts' = copy(contexts, ref).heap
    /\ UNCHANGED <<nsVars, loadVars, cliVars, extVars, callVars, grpVars, _instance, instances>>

\* cls(context=given), or cls() when given = 0.
NewTask(cls, given) ==
    LET made == Task__init__(contexts, _instance, given)
    IN  /\ Len(made.heap) <= MaxContexts
        /\ contexts' = made.heap
        /\ _instance' = made._instance
        /\ instances' = Append(instances, TaskInstance(cls, made.context, made.source, 0))
        /\ UNCHANGED <<nsVars, loadVars, cliVars, extVars, callVars, grpVars>>

\* The group instance g creates its n members.
GroupGetTasks(g, n) ==
    LET made == MakeMembers(contexts, instances, g, n)
    IN  /\ instances[g].cls = "group"
        /\ Len(made.heap) <= MaxContexts
        /\ contexts' = made.heap
        /\ instances' = made.insts
        /\ UNCHANGED <<nsVars, loadVars, cliVars, extVars, callVars, grpVars, _instance>>

\* ref.cwd = value on a Context object (as the tests do, to run a task elsewhere).
SetCwd(ref, value) ==
    /\ contexts[ref].cwd # value
    /\ contexts' = [contexts EXCEPT ![ref].cwd = value]
    /\ UNCHANGED <<nsVars, loadVars, cliVars, extVars, callVars, grpVars, _instance, instances>>

NextCtx ==
    \/ \E cwd \in Cwds, env \in Envs : NewContext(cwd, env)
    \/ GlobalContextGet
    \/ \E ref \in DOMAIN contexts : ContextCopy(ref)
    \/ \E cls \in {"task", "group"}, given \in 0..Len(contexts) : NewTask(cls, given)
    \/ \E g \in DOMAIN instances, n \in 1..2 : GroupGetTasks(g, n)
    \/ \E ref \in DOMAIN contexts : \E cwd \in Cwds : SetCwd(ref, cwd)

SpecCtx == InitCtx /\ [][NextCtx]_vars

(***************************************************************************)
(* Paths (os.path, POSIX), as get_cwd uses them                            *)
(***************************************************************************)
EndsWith(s, suffix) ==
    Len(s) >= Len(suffix) /\ SubSeq(s, Len(s) - Len(suffix) + 1, Len(s)) = suffix

\* os.path.join(a, b)
os_path_join(a, b) ==
    IF StartsWith(b, "/") THEN b
    ELSE IF a = "" \/ EndsWith(a, "/") THEN a \o b
    ELSE a \o "/" \o b

RECURSIVE SplitFrom(_, _, _)
\* path.split("/"): the components from position i on, cur being the one begun.
SplitFrom(path, i, cur) ==
    IF i > Len(path) THEN <<cur>>
    ELSE IF SubSeq(path, i, i) = "/" THEN <<cur>> \o SplitFrom(path, i + 1, "")
    ELSE SplitFrom(path, i + 1, cur \o SubSeq(path, i, i))

Split(path) == SplitFrom(path, 1, "")

RECURSIVE NormComps(_, _, _)
\* The loop of os.path.normpath over the components.
NormComps(comps, new_comps, initial_slashes) ==
    IF comps = <<>> THEN new_comps
    ELSE LET comp == Head(comps)
         IN  IF comp = "" \/ comp = "."
             THEN NormComps(Tail(comps), new_comps, initial_slashes)
             ELSE IF \/ comp # ".."
                     \/ (initial_slashes = 0 /\ new_comps = <<>>)
                     \/ (new_comps # <<>> /\ new_comps[Len(new_comps)] = "..")
             THEN NormComps(Tail(comps), Append(new_comps, comp), initial_slashes)
             ELSE IF new_comps # <<>>
             THEN NormComps(Tail(comps), SubSeq(new_comps, 1, Len(new_comps) - 1),
                            initial_slashes)
             ELSE NormComps(Tail(comps), new_comps, initial_slashes)

RECURSIVE JoinComps(_)
\* "/".join(comps)
JoinComps(comps) ==
    IF comps = <<>> THEN ""
    ELSE IF Len(comps) = 1 THEN comps[1]
    ELSE comps[1] \o "/" \o JoinComps(Tail(comps))

\* os.path.normpath(path)
normpath(path) ==
    IF path = "" THEN "."
    ELSE LET initial_slashes ==
                 IF ~StartsWith(path, "/") THEN 0
                 ELSE IF StartsWith(path, "//") /\ ~StartsWith(path, "///") THEN 2
                 ELSE 1
             joined == JoinComps(NormComps(Split(path), <<>>, initial_slashes))
             result == IF initial_slashes = 2 THEN "//" \o joined
                       ELSE IF initial_slashes = 1 THEN "/" \o joined
                       ELSE joined
         IN  IF result = "" THEN "." ELSE result

\* os.getcwd(): the working directory of the process.
os_getcwd == "/proc"

\* os.path.abspath(path)
abspath(path) ==
    IF StartsWith(path, "/") THEN normpath(path)
    ELSE normpath(os_path_join(os_getcwd, path))

(***************************************************************************)
(* Subprocess tasks (task_mom/tasks.py lines 360-485): BaseSubprocessTask, *)
(* ProgramTask and ScriptTask.                                             *)
(***************************************************************************)
\* x or default, for an optional value whose falsy value is `empty`.
Or(opt, empty) == IF opt = None \/ opt = Some(empty) THEN empty ELSE opt[1]

EmptyEnv == [k \in {} |-> ""]

\* BaseSubprocessTask.get_cwd (lines 369-376)
get_cwd_joined_only(context, cwd) == os_path_join(context.cwd, Or(cwd, ""))

get_cwd(context, cwd) == abspath(os_path_join(context.cwd, Or(cwd, "")))

\* a | b for mappings: the keys of both, the value of b where both have the key.
MergeLeftWins(a, b) ==
    [k \in DOMAIN a \cup DOMAIN b |-> IF k \in DOMAIN a THEN a[k] ELSE b[k]]

Merge(a, b) ==
    [k \in DOMAIN a \cup DOMAIN b |-> IF k \in DOMAIN b THEN b[k] ELSE a[k]]

\* BaseSubprocessTask.get_env (lines 378-385): the mapping returned, and the context's
\* environment after the call.
get_env(context, env) ==
    [value |-> Merge(context.env, Or(env, EmptyEnv)), context |-> context]

\* ProgramTask.get_program (lines 397-406) and ScriptTask.get_script (lines 455-464):
\* the value, or the exception raised.
get_content_unchecked(content) ==
    [raised |-> NoValue, value |-> Or(content, "")]

get_content(content) ==
    IF content = None
    THEN [raised |-> "NotImplementedError", value |-> ""]
    ELSE [raised |-> NoValue, value |-> content[1]]

\* ProgramTask.get_program_args (lines 408-415)
get_program_args(program_args) == Or(program_args, <<>>)

\* The check argument of subprocess.run in run_program and run_script.
check_nonzero == TRUE

check == FALSE

\* subprocess.run(...) when the child has exited with returncode.
subprocess_run(proc, returncode) ==
    IF proc.check /\ returncode # 0
    THEN [raised |-> "CalledProcessError", value |-> None]
    ELSE [raised |-> NoValue,
          value  |-> Some([args |-> proc.args, returncode |-> returncode])]

\* What run hands back of the result of run_program / run_script (lines 417-422, 467-471).
run_returns(cls, result) == IF cls = "ProgramTask" THEN result ELSE None

\* The inputs.
ContextCwds == {"/", "/a", "/a/b", "/a/", "/a/../b", "rel"}
TaskCwds == {None, Some(""), Some("b"), Some(".."), Some("../c"), Some("/c"), Some("./b"),
             Some("../.."), Some("//c"), Some("b/../..")}
EnvKeys == {"A", "B"}
ContextEnvs == UNION {[keys -> {"context"}] : keys \in SUBSET EnvKeys}
TaskEnvs == {None} \cup {Some(e) : e \in UNION {[keys -> {"task"}] : keys \in SUBSET EnvKeys}}
ReturnCodes == {0, 1, 2}

Contexts == [cwd : ContextCwds, env : ContextEnvs]

\* A task class with its attributes, constructed with a context.
SubprocessTasks ==
    [cls : {"ProgramTask"}, content : {None, Some("prog")},
     program_args : {None, Some(<<>>), Some(<<"-l">>), Some(<<"-l", "x">>)},
     cwd : TaskCwds, env : TaskEnvs, context : Contexts]
    \cup
    [cls : {"ScriptTask"}, content : {None, Some("echo; exit 1")},
     program_args : {None}, cwd : TaskCwds, env : TaskEnvs, context : Contexts]

InitSub ==
    /\ store = EmptyStore
    /\ regLog = <<>>
    /\ lastGet = NoGet
    /\ mods = <<>>
    /\ modules = <<>>
    /\ handled_modules = {}
    /\ loadPc = "idle"
    /\ CliIdle
    /\ CallIdle
    /\ GroupIdle
    /\ ContextIdle
    /\ CmdIdle
    /\ MetaIdle
    /\ InputIdle
    /\ subIn \in SubprocessTasks
    /\ subCtx = subIn.context
    /\ subPc = "start"
    /\ subOut = NoSubOut
    /\ processes = <<>>
    /\ CondIdle

\* run, up to the call of subprocess.run: the getters in the order of the code, then
\* the child process is spawned.
SubRun ==
    /\ subPc = "start"
    /\ LET content == get_content(subIn.content)
           cwd     == get_cwd(subCtx, subIn.cwd)
           env     == get_env(subCtx, subIn.env)
       IN  IF content.raised # NoValue
           THEN /\ subPc' = "raised"
                /\ subOut' = [subOut EXCEPT !.raised = content.raised]
                /\ UNCHANGED <<subCtx, processes>>
           ELSE /\ subPc' = "child"
                /\ subCtx' = env.context
                /\ processes' = Append(processes,
                      [args  |-> IF subIn.cls = "ProgramTask"
                                 THEN <<content.value>> \o get_program_args(subIn.program_args)
                                 ELSE <<content.value>>,
                       shell |-> subIn.cls = "ScriptTask",
                       check |-> check,
                       cwd   |-> cwd,
                       env   |-> env.value,
                       returncode |-> -1])
                /\ UNCHANGED subOut
    /\ UNCHANGED <<nsVars, loadVars, cliVars, callVars, grpVars, ctxVars, cmdVars, metaVars, inputVars, condVars, subIn>>

\* The child exits; subprocess.run returns (or raises) and so does run.
SubChildExits(returncode) ==
    /\ subPc = "child"
    /\ LET proc   == processes[Len(processes)]
           result == subprocess_run(proc, returncode)
       IN  /\ processes' = [processes EXCEPT ![Len(processes)].returncode = returncode]
           /\ IF result.raised # NoValue
              THEN /\ subPc' = "raised"
                   /\ subOut' = [subOut EXCEPT !.raised = result.raised]
              ELSE /\ subPc' = "returned"
                   /\ subOut' = [subOut EXCEPT !.returned = run_returns(subIn.cls, result.value)]
    /\ UNCHANGED <<nsVars, loadVars, cliVars, callVars, grpVars, ctxVars, cmdVars, metaVars, inputVars, condVars, subIn, subCtx>>

NextSub == SubRun \/ \E returncode \in ReturnCodes : SubChildExits(returncode)

SpecSub == InitSub /\ [][NextSub]_vars

(***************************************************************************)
(* FilesNotModified (quickie/utils/conditions/__init__.py lines 29-133).   *)
(* The file system holds the file f1 and the directory d with the file     *)
(* d/g; a file is missing or has a content and a modification time.        *)
(***************************************************************************)
MaxFiles == 2      \* paths given to FilesNotModified
MaxEvals == 4      \* evaluations of the condition in a run

FilePaths == {"f1", "d/g"}
WatchedPaths == {"f1", "d/g", "d"}
Algorithms == {"timestamp", "md5", "sha1", "sha256"}

Missing == [kind |-> "missing", content |-> "", mtime |-> 0]
File(content, mtime) == [kind |-> "file", content |-> content, mtime |-> mtime]
Directory == [kind |-> "dir", content |-> "", mtime |-> 0]

\* What a file can be: missing, or one of its versions (written, rewritten, touched).
FileStates == {Missing, File("a", 1), File("b", 2), File("a", 2)}

\* file.exists() and file.is_dir()
exists(file) == fs[file].kind # "missing"
is_dir(file) == fs[file].kind = "dir"

\* get_timestamp / get_md5 / get_sha1 / get_sha256 (lines 119-133): the value kept in
\* the cache for an existing file; a hash is a function of the content alone.
val_getter(algorithm, file) ==
    IF algorithm = "timestamp"
    THEN "mtime=" \o (IF fs[file].mtime = 1 THEN "1" ELSE "2")
    ELSE algorithm \o "(" \o fs[file].content \o ")"

\* json.dump(cache, file) and json.load(file): the text is the set of the
\* "key": value members.
json_dump(cache) == Some({<<k, cache[k]>> : k \in DOMAIN cache})

json_load(text) ==
    [k \in {member[1] : member \in text} |->
        (CHOOSE member \in text : member[1] = k)[2]]

EmptyCache == [k \in {} |-> ""]

\* load_cache that never finds the cache file.
load_cache_not_found(cache_file) == EmptyCache

\* load_cache (lines 96-102): {} when the cache file does not exist.
load_cache(cache_file) == IF cache_file = None THEN EmptyCache ELSE json_load(cache_file[1])

\* iter_files (lines 109-117): the for loop runs over the list it was started with;
\* the chain that line 115 binds to the name `files` is never iterated, so a directory
\* yields nothing and every other path is yielded in order.
iter_files(files) == SelectSeq(files, LAMBDA file : ~is_dir(file))

\* cache.pop(key, None)
Pop(cache, key) == [k \in DOMAIN cache \ {key} |-> cache[k]]

\* cache[key] = val that stores nothing.
PutNothing(cache, key, val) == cache

\* cache[key] = val
Put(cache, key, val) == [k \in DOMAIN cache \cup {key} |-> IF k = key THEN val ELSE cache[k]]

RECURSIVE CheckFiles(_, _, _)
\* The loop of __call__ (lines 75-90) over the files yielded, from the state st of
\* the variables cache and all_matches.
CheckFiles(files, cond, st) ==
    IF files = <<>> THEN st
    ELSE LET file == Head(files)
         IN  IF ~exists(file)
             THEN CheckFiles(Tail(files), cond,
                             [cache       |-> Pop(st.cache, file),
                              all_matches |-> st.all_matches /\ cond.allow_missing])
             ELSE LET val     == val_getter(cond.algorithm, file)
                      matches == file \in DOMAIN st.cache /\ st.cache[file] = val
                  IN  IF matches
                      THEN CheckFiles(Tail(files), cond, st)
                      ELSE CheckFiles(Tail(files), cond,
                                      [cache       |-> Put(st.cache, file, val),
                                       all_matches |-> FALSE])

\* FilesNotModified.__call__ (lines 59-94): the value returned and the cache file
\* after the call.
FilesNotModified__call__(cond, cache_file) ==
    LET st == CheckFiles(iter_files(cond.files), cond,
                         [cache |-> load_cache(cache_file), all_matches |-> TRUE])
    IN  [result     |-> st.all_matches,
         cache_file |-> IF ~st.all_matches THEN json_dump(st.cache) ELSE cache_file]

FileSystems ==
    {("f1" :> a) @@ ("d/g" :> b) @@ ("d" :> Directory) :
        a \in FileStates, b \in FileStates}

InitCond ==
    /\ store = EmptyStore
    /\ regLog = <<>>
    /\ lastGet = NoGet
    /\ mods = <<>>
    /\ modules = <<>>
    /\ handled_modules = {}
    /\ loadPc = "idle"
    /\ CliIdle
    /\ CallIdle
    /\ GroupIdle
    /\ ContextIdle
    /\ CmdIdle
    /\ MetaIdle
    /\ InputIdle
    /\ SubIdle
    /\ condIn \in [files : SeqsUpTo(WatchedPaths, MaxFiles), algorithm : Algorithms,
                   allow_missing : BOOLEAN]
    /\ fs \in FileSystems
    /\ cacheFile = None
    /\ condOut = NoCondOut
    /\ evaluatedFs = <<>>

\* condition(task)
Evaluate ==
    /\ condOut.evals < MaxEvals
    /\ LET call == FilesNotModified__call__(condIn, cacheFile)
       IN  /\ cacheFile' = call.cache_file
           /\ condOut' = [evals |-> condOut.evals + 1, result |-> Some(call.result)]
    /\ evaluatedFs' = fs
    /\ UNCHANGED <<nsVars, loadVars, cliVars, callVars, grpVars, ctxVars, cmdVars, metaVars, inputVars, subVars, condIn, fs>>

\* Between evaluations a file is written (created, rewritten or touched) or removed.
ChangeFile(path, state) ==
    /\ condOut.evals < MaxEvals
    /\ fs[path] # state
    /\ fs' = [fs EXCEPT ![path] = state]
    /\ UNCHANGED <<nsVars, loadVars, cliVars, callVars, grpVars, ctxVars, cmdVars, metaVars, inputVars, subVars, condIn,
                   cacheFile, condOut, evaluatedFs>>

NextCond ==
    \/ Evaluate
    \/ \E path \in FilePaths, state \in FileStates : ChangeFile(path, state)

SpecCond == InitCond /\ [][NextCond]_vars

(***************************************************************************)
(* Task.writeln (tasks.py lines 256-258) and Task.input (lines 264-280).   *)
(* The stdin of the context is a sequence of lines, each ending with a     *)
(* newline but possibly the last; its stdout is the sequence of the        *)
(* strings written to it.                                                  *)
(***************************************************************************)
MaxLines == 3      \* lines in stdin
MaxPrompts == 4    \* writes of the prompt (the loop does not end at end of file)
MaxWritelns == 2   \* calls of writeln

Contents == {"Hello world!", ""}

Prompts == {"Prompt message", "> "}
TerminatedLines == {"\n", "value1\n", " \n"}
UnterminatedLines == {"value2"}

\* What stdin can hold.
Stdins ==
    SeqsUpTo(TerminatedLines, MaxLines)
        \cup {Append(q, t) : q \in SeqsUpTo(TerminatedLines, MaxLines - 1), t \in UnterminatedLines}

\* str.rstrip that strips nothing.
rstrip_nothing(str, char) == str

RECURSIVE rstrip(_, _)
\* str.rstrip(char): without every trailing occurrence of the character.
rstrip(str, char) ==
    IF EndsWith(str, char) /\ char # ""
    THEN rstrip(SubSeq(str, 1, Len(str) - 1), char)
    ELSE str

\* stdin.readline(): the next line, "" at end of file.
readline(stream) == IF stream = <<>> THEN "" ELSE Head(stream)

InitInput ==
    /\ store = EmptyStore
    /\ regLog = <<>>
    /\ lastGet = NoGet
    /\ mods = <<>>
    /\ modules = <<>>
    /\ handled_modules = {}
    /\ loadPc = "idle"
    /\ CliIdle
    /\ CallIdle
    /\ GroupIdle
    /\ ContextIdle
    /\ CmdIdle
    /\ MetaIdle
    /\ SubIdle
    /\ CondIdle
    /\ inputIn \in [prompt : Prompts, required : BOOLEAN]
    /\ stdin \in Stdins
    /\ stdout = <<>>
    /\ inputPc = "idle"
    /\ inputOut = NoInputOut

\* The writes to stdout that Task.input made.
InputWrites ==
    CASE inputPc = "idle" -> <<>>
      [] inputPc = "done" -> SubSeq(stdout, inputOut.stdout_before + 1, inputOut.stdout_after)
      [] OTHER            -> SubSeq(stdout, inputOut.stdout_before + 1, Len(stdout))

\* task.writeln(content), before task.input is called or after it has returned:
\* self.context.stdout.write(content + "\n")
Writeln(content) ==
    /\ inputPc \in {"idle", "done"}
    /\ Len(stdout) - Len(InputWrites) < MaxWritelns
    /\ stdout' = Append(stdout, content \o "\n")
    /\ UNCHANGED <<nsVars, loadVars, cliVars, callVars, grpVars, ctxVars, cmdVars, metaVars, subVars, condVars,
                   inputIn, stdin, inputPc, inputOut>>

\* task.input(prompt, required) is called: result = ""
InputCall ==
    /\ inputPc = "idle"
    /\ inputPc' = "write"
    /\ inputOut' = [inputOut EXCEPT !.stdout_before = Len(stdout)]
    /\ UNCHANGED <<nsVars, loadVars, cliVars, callVars, grpVars, ctxVars, cmdVars, metaVars, subVars, condVars,
                   inputIn, stdin, stdout>>

\* Lines 275-276: stdout.write(prompt); stdout.flush()
InputWrite ==
    /\ inputPc = "write"
    /\ Len(InputWrites) < MaxPrompts
    /\ stdout' = Append(stdout, inputIn.prompt)
    /\ inputPc' = "read"
    /\ UNCHANGED <<nsVars, loadVars, cliVars, callVars, grpVars, ctxVars, cmdVars, metaVars, subVars, condVars,
                   inputIn, stdin, inputOut>>

\* Lines 277-280: the line is read and stripped; the function returns it when it is
\* not empty (the loop ends) or when the input is not required, and loops otherwise.
InputRead ==
    /\ inputPc = "read"
    /\ LET line   == readline(stdin)
           result == rstrip(line, "\n")
       IN  /\ stdin' = IF stdin = <<>> THEN stdin ELSE Tail(stdin)
           /\ IF result # "" \/ ~inputIn.required
              THEN /\ inputPc' = "done"
                   /\ inputOut' = [inputOut EXCEPT !.returned = Some(result),
                                                   !.lines = Append(@, line),
                                                   !.stdout_after = Len(stdout)]
              ELSE /\ inputPc' = "write"
                   /\ inputOut' = [inputOut EXCEPT !.lines = Append(@, line)]
    /\ UNCHANGED <<nsVars, loadVars, cliVars, callVars, grpVars, ctxVars, cmdVars, metaVars, subVars, condVars,
                   inputIn, stdout>>

NextInput ==
    \/ \E content \in Contents : Writeln(content)
    \/ InputCall
    \/ InputWrite
    \/ InputRead

SpecInput == InitInput /\ [][NextInput]_vars

(***************************************************************************)
(* TaskMeta.__new__ (quickie/tasks.py lines 25-51).  A class statement     *)
(* gives the class name, the docstring and the options of its own Meta;    *)
(* _meta holds them over the defaults of Task.DefaultMeta (lines 57-81).   *)
(***************************************************************************)
MAX_SHORT_HELP_LENGTH == 50

ClassNames == {"MyTask", "hello", "T2"}
Docstrings ==
    {None, Some(""), Some("Say hello."), Some("Say hello.\n\nTo everybody."),
     Some("A first line of more than fifty characters, the limit.\nMore.")}

\* The options a Meta can give; other is an attribute DefaultMeta does not have.
Metas ==
    [name : {None, Some(""), Some("hi")}, private : BOOLEAN,
     help : {None, Some(""), Some("Explicit help.")},
     short_help : {None, Some("Explicit short help.")}, other : BOOLEAN]

ClassStatements == [name : ClassNames, doc : Docstrings, Meta : Metas]

\* `not x` for an option or a docstring: None and the empty string are falsy.
Falsy(opt) == opt = None \/ opt = Some("")

UpperCase == "ABCDEFGHIJKLMNOPQRSTUVWXYZ"
LowerCase == "abcdefghijklmnopqrstuvwxyz"

RECURSIVE lower(_)
\* str.lower()
lower(str) ==
    IF str = "" THEN ""
    ELSE LET c == SubSeq(str, 1, 1)
             l == IF \E i \in 1..Len(UpperCase) : SubSeq(UpperCase, i, i) = c
                  THEN LET i == CHOOSE i \in 1..Len(UpperCase) : SubSeq(UpperCase, i, i) = c
                       IN  SubSeq(LowerCase, i, i)
                  ELSE c
         IN  l \o lower(SubSeq(str, 2, Len(str)))

RECURSIVE first_line(_)
\* str.split("\n")[0]
first_line(str) ==
    IF str = "" \/ SubSeq(str, 1, 1) = "\n" THEN ""
    ELSE SubSeq(str, 1, 1) \o first_line(SubSeq(str, 2, Len(str)))

\* Lines 47-49: the first line of the docstring, cut at MAX_SHORT_HELP_LENGTH.
short_help_of(doc) ==
    LET short_help == first_line(doc)
    IN  IF Len(short_help) > MAX_SHORT_HELP_LENGTH
        THEN SubSeq(short_help, 1, MAX_SHORT_HELP_LENGTH) \o "..."
        ELSE short_help

\* The name a class that gives none is known by that keeps the case.
derived_name_as_written(name) == name

\* Line 43: name.lower()
derived_name(name) == lower(name)

\* Lines 45-50 for a class with a docstring and no help: help and short_help are
\* both assigned.
with_docstring_help(meta, doc) ==
    [meta EXCEPT !.help = Some(doc), !.short_help = Some(short_help_of(doc))]

\* TaskMeta.__new__: the error raised, or the _meta of the class.
TaskMeta__new__(cls) ==
    LET meta == [name       |-> cls.Meta.name,
                 private    |-> cls.Meta.private,
                 help       |-> cls.Meta.help,
                 short_help |-> cls.Meta.short_help]
    IN  IF cls.Meta.other THEN [made |-> TRUE, raised |-> "AttributeError", meta |-> None]
        ELSE IF meta.private THEN [made |-> TRUE, raised |-> NoValue, meta |-> Some(meta)]
        ELSE LET named == IF Falsy(meta.name)
                          THEN [meta EXCEPT !.name = Some(derived_name(cls.name))]
                          ELSE meta
             IN  IF ~Falsy(cls.doc) /\ ~Falsy(named.help)
                 THEN [made |-> TRUE, raised |-> NoValue, meta |-> Some(named)]
                 ELSE IF ~Falsy(cls.doc)
                 THEN [made |-> TRUE, raised |-> NoValue,
                       meta |-> Some(with_docstring_help(named, cls.doc[1]))]
                 ELSE [made |-> TRUE, raised |-> NoValue, meta |-> Some(named)]

InitMeta ==
    /\ store = EmptyStore
    /\ regLog = <<>>
    /\ lastGet = NoGet
    /\ mods = <<>>
    /\ modules = <<>>
    /\ handled_modules = {}
    /\ loadPc = "idle"
    /\ CliIdle
    /\ CallIdle
    /\ GroupIdle
    /\ ContextIdle
    /\ CmdIdle
    /\ SubIdle
    /\ CondIdle
    /\ InputIdle
    /\ clsIn \in ClassStatements
    /\ clsOut = NoClsOut

\* The class statement is executed.
ClassCreated ==
    /\ ~clsOut.made
    /\ clsOut' = TaskMeta__new__(clsIn)
    /\ UNCHANGED <<nsVars, loadVars, cliVars, callVars, grpVars, ctxVars, cmdVars, subVars, condVars,
                   inputVars, clsIn>>

NextMeta == ClassCreated

SpecMeta == InitMeta /\ [][NextMeta]_vars

(***************************************************************************)
(* Command.run (quickie/tasks.py lines 320-345) and ProgramTask.run        *)
(* (task_mom/tasks.py lines 417-422): the getters, each a call with        *)
(* positional and keyword arguments, and then run_program.                 *)
(***************************************************************************)
MaxExtra == 2      \* unknown arguments passed to run

ExtraTokens == {"extra", "-x"}

\* The calls run(*args, **kwargs): the class and its attributes, the arguments.
CommandCalls ==
    [cls : {"Command", "ProgramTask"},
     binary : {None, Some("ls")},
     program_args : {None, Some(<<>>), Some(<<"-l">>), Some(<<"-l", "dir">>)},
     args : SeqsUpTo(ExtraTokens, MaxExtra),
     kwargs : [verbose : BOOLEAN]]

\* A call as it is received: the method, *args and **kwargs.
Call(method, args, kwargs) == [method |-> method, args |-> args, kwargs |-> kwargs]

\* get_binary / get_program and get_args / get_program_args, by class.
BinaryGetter(cls) == IF cls = "Command" THEN "get_binary" ELSE "get_program"
ArgsGetter(cls) == IF cls = "Command" THEN "get_args" ELSE "get_program_args"

\* The name args where run calls get_cwd and get_env: Command.run has assigned the
\* command's arguments to it (lines 338-341: args = [] or program, *args = cmd),
\* ProgramTask.run keeps them in program_args.
args_at_get_cwd(cls, args, program_args) ==
    IF cls = "Command" THEN program_args ELSE args

\* run(*args, **kwargs): the calls made and the error raised.
Command_run(self) ==
    LET get_binary   == Call(BinaryGetter(self.cls), self.args, self.kwargs)
        get_args     == Call(ArgsGetter(self.cls), self.args, self.kwargs)
        program_args == Or(self.program_args, <<>>)
        later        == args_at_get_cwd(self.cls, self.args, program_args)
    IN  IF self.binary = None
        THEN [ran |-> TRUE, calls |-> <<get_binary>>, raised |-> "NotImplementedError"]
        ELSE [ran    |-> TRUE,
              calls  |-> <<get_binary, get_args,
                           Call("get_cwd", later, self.kwargs),
                           Call("get_env", later, self.kwargs),
                           [method |-> "run_program", args |-> <<self.binary[1]>>,
                            kwargs |-> [args |-> program_args]]>>,
              raised |-> NoValue]

InitCmd ==
    /\ store = EmptyStore
    /\ regLog = <<>>
    /\ lastGet = NoGet
    /\ mods = <<>>
    /\ modules = <<>>
    /\ handled_modules = {}
    /\ loadPc = "idle"
    /\ CliIdle
    /\ CallIdle
    /\ GroupIdle
    /\ ContextIdle
    /\ SubIdle
    /\ CondIdle
    /\ InputIdle
    /\ MetaIdle
    /\ cmdIn \in CommandCalls
    /\ cmdOut = NoCmdOut

\* task.run(*args, **kwargs)
CommandRuns ==
    /\ ~cmdOut.ran
    /\ cmdOut' = Command_run(cmdIn)
    /\ UNCHANGED <<nsVars, loadVars, cliVars, callVars, grpVars, ctxVars, subVars, condVars,
                   inputVars, metaVars, cmdIn>>

NextCmd == CommandRuns

SpecCmd == InitCmd /\ [][NextCmd]_vars

(***************************************************************************)
(* Properties of the loader                                                *)
(***************************************************************************)
Range(seq) == {seq[i] : i \in 1..Len(seq)}

AliasSet(obj) == IF obj.alias_is_str THEN {obj.alias[1]} ELSE Range(obj.alias)

\* Module m defines the non-abstract task class c with alias a.
DefinesTask(m, a, c) ==
    \E obj \in Range(mods[m].dict) :
        obj.is_task /\ ~obj.abstract /\ obj.name = c /\ a \in AliasSet(obj)

\* Module m declares module s as a sub-module under the name n.
Declares(m, n, s) ==
    mods[m].has_namespaces /\ <<n, s>> \in Range(mods[m].MOM_NAMESPACES)

AllAliases == {"x", "y"}
AllClassNames == {obj.name : obj \in UNION {Range(b) : b \in UNION {ModuleBodies(m) : m \in ModuleIds}}}

GlobalReg(a, c) == [ns |-> global_namespace, name |-> a, cls |-> c]

\* The root module and a flattened sub-module define a task with the same alias.
SameAliasCase(s, a, cm, cs) ==
    /\ s # RootModule
    /\ Declares(RootModule, "", s)
    /\ DefinesTask(RootModule, a, cm)
    /\ DefinesTask(s, a, cs)

\* C1: after loading, a name defined both by the root module M and by a sub-module S
\* declared under the empty name resolves to M's task type: S's task was registered
\* under that name first and M's own task after it.
C1_LocalOverridesImported ==
    loadPc = "done" =>
        \A s \in ModuleIds, a \in AllAliases, cm \in AllClassNames, cs \in AllClassNames :
            SameAliasCase(s, a, cm, cs) =>
                /\ a \in DOMAIN store
                /\ store[a] = cm
                /\ get_task_class(store, global_namespace, a).value = cm
                /\ \E i \in 1..Len(regLog), j \in 1..Len(regLog) :
                      /\ i < j
                      /\ regLog[i] = GlobalReg(a, cs)
                      /\ regLog[j] = GlobalReg(a, cm)

C1_Witness ==
    /\ loadPc = "done"
    /\ \E s \in ModuleIds, a \in AllAliases, cm \in AllClassNames, cs \in AllClassNames :
          SameAliasCase(s, a, cm, cs) /\ cm # cs /\ store[a] = cm

\* The chains of declared names s1..sn by which a module can be reached from the root.
MaxChain == Cardinality(ModuleIds)
Chains == SeqsUpTo(SubNames, MaxChain)

\* The module that module m declares under the name n, if any.
SubModule(m, n) ==
    IF m # NoValue /\ mods[m].has_namespaces
          /\ \E item \in Range(mods[m].MOM_NAMESPACES) : item[1] = n
    THEN (CHOOSE item \in Range(mods[m].MOM_NAMESPACES) : item[1] = n)[2]
    ELSE NoValue

RECURSIVE ModuleAt(_)
\* The module reached from the root through the chain of names, if any.
ModuleAt(chain) ==
    IF chain = <<>> THEN RootModule
    ELSE SubModule(ModuleAt(SubSeq(chain, 1, Len(chain) - 1)), chain[Len(chain)])

RECURSIVE QualifiedKey(_, _)
\* s1:...:sn:a, the empty names contributing no segment.
QualifiedKey(chain, a) ==
    IF chain = <<>> THEN a
    ELSE IF Head(chain) = "" THEN QualifiedKey(Tail(chain), a)
    ELSE Head(chain) \o ":" \o QualifiedKey(Tail(chain), a)

ReachingChains == {ch \in Chains : ModuleAt(ch) # NoValue}

\* Every module is reached from the root by one chain at most: it appears once in
\* the declarations of the modules reached, and the root in none.
DeclaredOnce ==
    \A c1, c2 \in ReachingChains : ModuleAt(c1) = ModuleAt(c2) => c1 = c2

\* No module is reached from itself.
Acyclic == \A ch \in ReachingChains : Len(ch) < MaxChain

ExpectedEntries ==
    {<<QualifiedKey(ch, a), c>> :
        <<ch, a, c>> \in {t \in ReachingChains \X AllAliases \X AllClassNames :
                             DefinesTask(ModuleAt(t[1]), t[2], t[3])}}

\* The (key, type) pairs of the register calls made.
RegisteredEntries ==
    {<<namespace_name(regLog[i].ns, regLog[i].name), regLog[i].cls>> : i \in 1..Len(regLog)}

AbstractClassNames ==
    {obj.name : obj \in {o \in UNION {Range(mods[m].dict) : m \in ModuleIds} :
                            o.is_task /\ o.abstract}}

\* C11: when every module is declared once, loading has registered exactly the pairs
\* of a key s1:...:sn:a and a type, for each module reached through the declared names
\* s1..sn and each alias a of each non-abstract task type of it; the keys of the store
\* are those keys, each mapped to a type registered under it, and no abstract type is
\* registered.
C11_RegisteredKeysExact ==
    (loadPc = "done" /\ DeclaredOnce) =>
        /\ RegisteredEntries = ExpectedEntries
        /\ DOMAIN store = {e[1] : e \in ExpectedEntries}
        /\ \A k \in DOMAIN store : <<k, store[k]>> \in ExpectedEntries
        /\ \A i \in 1..Len(regLog) : regLog[i].cls \notin AbstractClassNames
        /\ \A k \in DOMAIN store : store[k] \notin AbstractClassNames

\* The root declares S under "a" and S declares T under "a"; S also has an abstract type.
C11_Witness ==
    /\ loadPc = "done"
    /\ DeclaredOnce
    /\ ModuleAt(<<"a", "a">>) = "T"
    /\ ModuleAt(<<"">>) = NoValue
    /\ "a:a:x" \in DOMAIN store
    /\ "a:y" \in DOMAIN store
    /\ "SBase" \in AbstractClassNames
    /\ store["a:a:x"] = "TTask"

\* The chains c1 and c2 reach the same module through two names declared by one module.
DeclaredTwice(c1, c2) ==
    /\ c1 # <<>> /\ c2 # <<>>
    /\ Len(c1) = Len(c2)
    /\ SubSeq(c1, 1, Len(c1) - 1) = SubSeq(c2, 1, Len(c2) - 1)
    /\ c1[Len(c1)] # c2[Len(c2)]
    /\ ModuleAt(c1) = ModuleAt(c2)

\* The tasks of the module reached by the chain ch are registered under its namespace.
RegisteredUnder(ch) ==
    \A a \in AllAliases, c \in AllClassNames :
        DefinesTask(ModuleAt(ch), a, c) => <<QualifiedKey(ch, a), c>> \in RegisteredEntries

\* C12 as stated: when a module is declared under two different names, its own tasks
\* and the tasks of every sub-module it declares are registered under both resulting
\* namespaces.
C12_DeclaredTwiceBoth ==
    (loadPc = "done" /\ Acyclic) =>
        \A c1, c2 \in ReachingChains :
            DeclaredTwice(c1, c2) =>
                /\ RegisteredUnder(c1)
                /\ RegisteredUnder(c2)
                /\ \A n \in SubNames :
                      SubModule(ModuleAt(c1), n) # NoValue =>
                          RegisteredUnder(c1 \o <<n>>) /\ RegisteredUnder(c2 \o <<n>>)

(***************************************************************************)
(* Properties of the namespace registry                                    *)
(***************************************************************************)
\* The qualified name written out: the segments outermost first, joined with ':'.
ExpectedKey(ns, name) ==
    IF ns.kind = "global" THEN name
    ELSE IF ns._parent.kind = "global" THEN ns._namespace \o ":" \o name
    ELSE ns._parent._namespace \o ":" \o ns._namespace \o ":" \o name

Found(cls) == [raised |-> NoValue, value |-> cls]

LastReg == regLog[Len(regLog)]

\* C2: for a chain global -> A -> B and a task name x, B.namespace_name(x) is "A:B:x",
\* and right after B.register(T, x) the global namespace's get_task_class("A:B:x") and
\* B.get_task_class(x) both return T.
C2_NamespaceComposition ==
    (Len(regLog) > 0 /\ LastReg.ns \in NsDepth2) =>
        LET key == LastReg.ns._parent._namespace \o ":" \o LastReg.ns._namespace
                      \o ":" \o LastReg.name
        IN  /\ namespace_name(LastReg.ns, LastReg.name) = key
            /\ get_task_class(store, global_namespace, key) = Found(LastReg.cls)
            /\ get_task_class(store, LastReg.ns, LastReg.name) = Found(LastReg.cls)
            /\ (lastGet.name # NoValue /\ namespace_name(lastGet.ns, lastGet.name) = key)
                  => lastGet.value = LastReg.cls /\ lastGet.raised = NoValue

C2_Witness ==
    /\ Len(regLog) > 0
    /\ LastReg.ns = Namespace("B", Namespace("A", global_namespace))
    /\ LastReg.name = "x"
    /\ lastGet.ns = global_namespace
    /\ lastGet.name = "A:B:x"
    /\ lastGet.value = LastReg.cls

\* The last register call made for the qualified name k.
LastRegFor(k) ==
    CHOOSE i \in 1..Len(regLog) :
        /\ ExpectedKey(regLog[i].ns, regLog[i].name) = k
        /\ \A j \in (i + 1)..Len(regLog) : ExpectedKey(regLog[j].ns, regLog[j].name) # k

\* C3: the store maps each qualified name to the class of the most recent register call
\* for it, every register call takes effect whether or not the name was taken, and
\* registering the same class under the same name twice in a row leaves the store as
\* registering it once does.
C3_LastRegistrationWins ==
    /\ DOMAIN store = {ExpectedKey(regLog[i].ns, regLog[i].name) : i \in 1..Len(regLog)}
    /\ \A k \in DOMAIN store : store[k] = regLog[LastRegFor(k)].cls
    /\ (Len(regLog) >= 2 /\ regLog[Len(regLog) - 1] = LastReg) =>
          store = ApplyRegistrations(EmptyStore, SubSeq(regLog, 1, Len(regLog) - 1))

C3_Witness ==
    /\ Len(regLog) >= 2
    /\ ExpectedKey(regLog[1].ns, regLog[1].name) = ExpectedKey(regLog[2].ns, regLog[2].name)
    /\ regLog[1].ns # regLog[2].ns
    /\ regLog[1].cls # regLog[2].cls
    /\ store[ExpectedKey(regLog[2].ns, regLog[2].name)] = regLog[2].cls

(***************************************************************************)
(* Properties of the CLI entry                                             *)
(***************************************************************************)
RegisteredKeys == {ExpectedKey(regLog[i].ns, regLog[i].name) : i \in 1..Len(regLog)}

\* The task name of the argv was looked up and no register call was made for it.
LookedUpAbsent ==
    /\ lastGet.name # NoValue
    /\ lastGet.name \notin RegisteredKeys

\* C4: get_task_class for a name absent from the store raises KeyError, returns no
\* default and leaves the store without that name; when the task name given to the CLI
\* is absent after loading, get_task raises TaskNotFoundError and main exits with code 1
\* (or lets the error escape when raise_error is true) and no task is run.
C4_AbsentTaskNotFound ==
    LookedUpAbsent =>
        /\ lastGet.raised = "KeyError"
        /\ lastGet.value = NoValue
        /\ lastGet.name \notin DOMAIN store
        /\ store = ApplyRegistrations(EmptyStore, regLog)
        /\ cliPc = "ended"
        /\ task = NoTask
        /\ ran = <<>>
        /\ IF cliIn.raise_error
           THEN cliOut.kind = "raise" /\ cliOut.raised = "TaskNotFoundError"
           ELSE cliOut.kind = "exit" /\ cliOut.exit_code = 1

C4_Witness ==
    /\ LookedUpAbsent
    /\ lastGet.name = "a:x"
    /\ Len(regLog) > 0
    /\ ~cliIn.raise_error
    /\ cliOut.kind = "exit"
    /\ cliOut.exit_code = 1

(***************************************************************************)
(* Properties of the task call protocol                                    *)
(***************************************************************************)
CallArgv == callIn.argv
OptionLike(i) == StartsWith(CallArgv[i], "-")

\* The positions of the argv matched by the declared arguments: a declared option, the
\* value that follows it, and the first plain token that is no such value.
DeclaredOptionPos == {i \in 1..Len(CallArgv) : CallArgv[i] \in DeclaredOptions}
OptionValuePos ==
    {i \in 2..Len(CallArgv) : (i - 1) \in DeclaredOptionPos /\ ~OptionLike(i)}
PlainPos == {i \in 1..Len(CallArgv) : ~OptionLike(i) /\ i \notin OptionValuePos}
Arg1Pos == {i \in PlainPos : \A j \in PlainPos : i <= j}
UnmatchedPos == (1..Len(CallArgv)) \ (DeclaredOptionPos \cup OptionValuePos \cup Arg1Pos)

\* seq holds exactly the tokens at the unmatched positions, in the order of the argv.
IsUnmatchedInOrder(seq) ==
    /\ Len(seq) = Cardinality(UnmatchedPos)
    /\ \E f \in [1..Len(seq) -> UnmatchedPos] :
          /\ \A a \in 1..Len(seq), b \in 1..Len(seq) : a < b => f[a] < f[b]
          /\ \A a \in 1..Len(seq) : seq[a] = CallArgv[f[a]]

RunEntered == callPc \in {"running", "returned"}

\* C5: with passthrough enabled run gets the unmatched tokens as positional arguments
\* in their original order and the declared arguments as keyword arguments, and the
\* call returns run's result; with passthrough disabled an unmatched token makes the
\* call exit with code 2 and run is never invoked.
C5_ExtraArgsPassthrough ==
    /\ (callIn.allow_unknown_args /\ RunEntered) =>
          /\ IsUnmatchedInOrder(callOut.run_args)
          /\ callOut.run_invoked = 1
          /\ \A i \in Arg1Pos : callOut.run_kwargs.arg1 = CallArgv[i]
          /\ \A i \in OptionValuePos :
                (\A j \in OptionValuePos : j <= i) => callOut.run_kwargs.arg2 = CallArgv[i]
          /\ OptionValuePos = {} => callOut.run_kwargs.arg2 = NoValue
    /\ (callIn.allow_unknown_args /\ callPc = "returned") =>
          callOut.result = [args |-> callOut.run_args, kwargs |-> callOut.run_kwargs]
    /\ (~callIn.allow_unknown_args /\ UnmatchedPos # {}) =>
          /\ ~RunEntered
          /\ callOut.run_invoked = 0
          /\ callPc = "exited" => callOut.exit_code = 2
    /\ (~callIn.allow_unknown_args /\ RunEntered) => callOut.run_args = <<>>

C5_Witness ==
    /\ callIn.allow_unknown_args
    /\ callIn.argv = <<"v1", "--arg2", "v3", "v3">>
    /\ callPc = "returned"
    /\ callOut.result = [args |-> <<"v3">>, kwargs |-> [arg1 |-> "v1", arg2 |-> "v3"]]

(***************************************************************************)
(* Properties of the serial group                                          *)
(***************************************************************************)
Started(i) == members[i].state # "new"

Running == {i \in DOMAIN members : members[i].state = "running"}

\* The members whose tokens are in the sink, in the order of the sink.
SinkMembers == [j \in 1..Len(sink) |-> sink[j].member]

\* C6: a serial group runs its members in declared order and one at a time: a member
\* has started only if the member declared before it has returned, at most one
\* member is running, and the tokens in the sink follow the declared order.
C6_SerialInOrder ==
    grpIn.kind = "serial" =>
        /\ Cardinality(Running) <= 1
        /\ \A i \in DOMAIN members :
              (i > 1 /\ Started(i)) => members[i - 1].state = "returned"
        /\ \A a, b \in 1..Len(sink) : a < b => SinkMembers[a] <= SinkMembers[b]

C6_Witness ==
    /\ grpIn.kind = "serial"
    /\ Len(members) = 3
    /\ members[1].state = "returned"
    /\ members[2].state = "returned"
    /\ members[3].state = "running"
    /\ Len(sink) >= 3

\* C7: when member k of a serial group has raised, the group's run has raised with
\* it, no member after k was run and every member before k was run exactly once.
C7_SerialFailFast ==
    grpIn.kind = "serial" =>
        \A k \in DOMAIN members :
            members[k].state = "raised" =>
                /\ grpPc.pc = "raised"
                /\ grpOut.raised_by = k
                /\ \A j \in DOMAIN members :
                      /\ j > k => members[j].runs = 0 /\ members[j].state = "new"
                      /\ j < k => members[j].runs = 1 /\ members[j].state = "returned"
                      /\ j = k => members[j].runs = 1

C7_Witness ==
    /\ grpIn.kind = "serial"
    /\ Len(members) = 3
    /\ members[1].state = "returned"
    /\ members[2].state = "raised"
    /\ grpPc.pc = "raised"

(***************************************************************************)
(* Properties of the thread group                                          *)
(***************************************************************************)
GroupEnded == grpPc.pc \in {"returned", "raised"}

Raisers == {i \in DOMAIN members : members[i].state = "raised"}

SinkTokens == [j \in 1..Len(sink) |-> sink[j].token]

\* The group of the two tasks of the busy-wait handshake, in either order.
Handshake ==
    /\ grpIn.kind = "thread"
    /\ grpIn.task_classes \in {<<"Task1", "Task2">>, <<"Task2", "Task1">>}

\* The run of the handshake group always goes on until it has returned, and it has
\* returned only when both members have returned, with the three tokens in order.
HandshakeCompletes ==
    /\ GroupEnded \/ ENABLED NextThread
    /\ grpPc.pc # "raised"
    /\ grpPc.pc = "returned" =>
          /\ \A i \in DOMAIN members : members[i].state = "returned"
          /\ Len(members) = 2
          /\ SinkTokens = <<"First", "Second", "Third">>

\* C8 as stated: whatever max_workers is, the group of two members that busy-wait on
\* each other's output completes without deadlock and returns only after both have
\* finished.
C8_HandshakeAnyPool == Handshake => HandshakeCompletes

\* C8, with a pool of at least two workers (max_workers unset, or 2 or more): the
\* group of two members that busy-wait on each other's output completes without
\* deadlock and returns only after both have finished.
C8_HandshakeCompletes ==
    (Handshake /\ (grpIn.max_workers = 0 \/ grpIn.max_workers >= 2)) => HandshakeCompletes

C8_Witness ==
    /\ Handshake
    /\ grpIn.max_workers = 2
    /\ grpPc.pc = "returned"
    /\ SinkTokens = <<"First", "Second", "Third">>

\* The run of a concurrent group can only stand still while a member has not finished.
ThreadGroupGoesOn ==
    (grpIn.kind = "thread" /\ grpPc.pc # "start" /\ ~GroupEnded) =>
        (ENABLED NextThread \/ \E i \in DOMAIN members : ~Finished(i))

\* C9: when the run of a concurrent group has ended and a member raised, the run
\* raised the exception of one of the raising members; the run has ended, either way,
\* only when every member has finished; and it does end once they all have.
C9_ThreadFailureReraised ==
    /\ (grpIn.kind = "thread" /\ GroupEnded) =>
          /\ \A i \in DOMAIN members : Finished(i)
          /\ Len(members) = Len(grpIn.task_classes)
          /\ Raisers # {} => grpPc.pc = "raised" /\ grpOut.raised_by \in Raisers
          /\ Raisers = {} => grpPc.pc = "returned" /\ grpOut.raised_by = 0
    /\ ThreadGroupGoesOn

C9_Witness ==
    /\ grpIn.kind = "thread"
    /\ grpPc.pc = "raised"
    /\ Cardinality(Raisers) = 2
    /\ grpOut.raised_by = 2

(***************************************************************************)
(* Properties of the task contexts                                         *)
(***************************************************************************)
\* The Context objects that change in a step.
Assigned == {ref \in DOMAIN contexts : contexts'[ref] # contexts[ref]}

\* C10: every task instance holds a Context object of its own: no other instance
\* holds it, and it is neither the context the instance was constructed with nor the
\* global context; so a step that assigns to a field of the context of one instance
\* leaves the context it was constructed with, the global context and the context of
\* every other instance (its group and its siblings among them) as they were.
C10_ContextCopyIsolated ==
    [][\A i \in DOMAIN instances :
          instances[i].context \in Assigned =>
              /\ instances[i].source \notin Assigned
              /\ _instance \notin Assigned
              /\ \A j \in DOMAIN instances \ {i} : instances[j].context \notin Assigned
              /\ \A j \in DOMAIN instances \ {i} :
                    contexts'[instances[j].context] = contexts[instances[j].context]
              /\ contexts'[instances[i].source] = contexts[instances[i].source]]_vars

\* A group with two members, where the cwd of one member was assigned: it differs from
\* the cwd of the group and of the sibling, which were copied from the same value.
C10_Witness ==
    \E g, a, b \in DOMAIN instances :
        /\ a # b
        /\ instances[g].cls = "group"
        /\ instances[a].group = g
        /\ instances[b].group = g
        /\ contexts[instances[a].context].cwd # contexts[instances[g].context].cwd
        /\ contexts[instances[b].context].cwd = contexts[instances[g].context].cwd
        /\ contexts[instances[g].context].cwd = contexts[instances[g].source].cwd

(***************************************************************************)
(* Properties of the subprocess tasks                                      *)
(***************************************************************************)
Spawned == processes # <<>>

\* subprocess.run has returned for the child with a nonzero exit status.
ExitedNonzero == Spawned /\ processes[1].returncode \notin {-1, 0}

\* The result of subprocess.run for the one subprocess spawned.
RawResult == [args |-> processes[1].args, returncode |-> processes[1].returncode]

\* C13 as stated: when the shell command of a ScriptTask has exited with a nonzero
\* status, run has raised nothing and has returned the raw subprocess result.
C13_ScriptReturnsResult ==
    (subIn.cls = "ScriptTask" /\ ExitedNonzero) =>
        /\ subPc = "returned"
        /\ subOut.raised = NoValue
        /\ subOut.returned = Some(RawResult)

\* C14: a ProgramTask with a program set spawns exactly one subprocess, with the argv
\* [program, *program_args], without a shell, with the working directory of get_cwd
\* and the environment of get_env; its run never raises, whatever the exit status, and
\* returns the result of subprocess.run, which carries that exit status.
C14_ProgramRunsOnce ==
    (subIn.cls = "ProgramTask" /\ subIn.content # None /\ subPc # "start") =>
        /\ Len(processes) = 1
        /\ processes[1].args = <<subIn.content[1]>> \o
              (IF subIn.program_args = None THEN <<>> ELSE subIn.program_args[1])
        /\ ~processes[1].shell
        /\ processes[1].cwd = get_cwd(subIn.context, subIn.cwd)
        /\ processes[1].env = get_env(subIn.context, subIn.env).value
        /\ subPc \in {"child", "returned"}
        /\ subOut.raised = NoValue
        /\ subPc = "returned" =>
              /\ processes[1].returncode \in ReturnCodes
              /\ subOut.returned = Some(RawResult)

C14_Witness ==
    /\ subIn.cls = "ProgramTask"
    /\ subPc = "returned"
    /\ processes[1].args = <<"prog", "-l", "x">>
    /\ subOut.returned = Some([args |-> <<"prog", "-l", "x">>, returncode |-> 2])

\* C15: a ProgramTask without a program, or a ScriptTask without a script, raises
\* NotImplementedError when it is run, and spawns no subprocess.
C15_ContentRequired ==
    (subIn.content = None /\ subPc # "start") =>
        /\ subPc = "raised"
        /\ subOut.raised = "NotImplementedError"
        /\ subOut.returned = None
        /\ processes = <<>>

C15_Witness ==
    /\ subIn.cls = "ScriptTask"
    /\ subIn.content = None
    /\ subPc = "raised"
    /\ subOut.raised = "NotImplementedError"

\* The names of a path: its components other than "" and ".".
Names(path) == SelectSeq(Split(path), LAMBDA comp : comp # "" /\ comp # ".")

RECURSIVE Resolve(_, _)
\* The directory reached from the directory `at` (its names from the root) by the
\* names: ".." goes to the parent, and the root is its own parent.
Resolve(at, names) ==
    IF names = <<>> THEN at
    ELSE IF Head(names) = ".."
    THEN Resolve(IF at = <<>> THEN at ELSE SubSeq(at, 1, Len(at) - 1), Tail(names))
    ELSE Resolve(Append(at, Head(names)), Tail(names))

IsAbsolute(path) == StartsWith(path, "/")

\* An absolute path without "", "." and ".." components and without a trailing slash.
IsNormalised(path) ==
    /\ IsAbsolute(path)
    /\ path \in {"/" \o JoinComps(Names(path)), "//" \o JoinComps(Names(path))}
    /\ \A i \in 1..Len(Names(path)) : Names(path)[i] # ".."

\* The directory of the context: its cwd, taken from the process's directory when it
\* is relative.
ContextDir ==
    IF IsAbsolute(subIn.context.cwd)
    THEN Resolve(<<>>, Names(subIn.context.cwd))
    ELSE Resolve(Names(os_getcwd), Names(subIn.context.cwd))

\* C16: the working directory that get_cwd gives the subprocess is an absolute,
\* normalised path; it names the directory reached from the context's cwd by a
\* relative cwd attribute (".." going to the parent), the directory of an absolute
\* cwd attribute whatever the context's cwd, and the context's cwd for "" and None
\* (that very path when it is normalised).
C16_CwdResolved ==
    Spawned =>
        LET result == processes[1].cwd
            attr   == IF subIn.cwd = None THEN "" ELSE subIn.cwd[1]
        IN  /\ IsNormalised(result)
            /\ ~IsAbsolute(attr) => Names(result) = Resolve(ContextDir, Names(attr))
            /\ IsAbsolute(attr) => Names(result) = Resolve(<<>>, Names(attr))
            /\ attr = "" => Names(result) = ContextDir
            /\ (attr = "" /\ IsNormalised(subIn.context.cwd)) => result = subIn.context.cwd

C16_Witness ==
    /\ Spawned
    /\ subIn.context.cwd = "/a/b"
    /\ subIn.cwd = Some("../c")
    /\ processes[1].cwd = "/a/c"

\* C17: the environment that get_env gives the subprocess has the keys of the
\* context's environment and of the task's env mapping, with the task's value for a
\* key of the task's mapping and the context's value for any other; the context's
\* environment is as it was.
C17_EnvMerged ==
    Spawned =>
        LET result   == processes[1].env
            task_env == IF subIn.env = None THEN EmptyEnv ELSE subIn.env[1]
        IN  /\ DOMAIN result = DOMAIN subIn.context.env \cup DOMAIN task_env
            /\ \A k \in DOMAIN task_env : result[k] = task_env[k]
            /\ \A k \in DOMAIN subIn.context.env \ DOMAIN task_env :
                  result[k] = subIn.context.env[k]
            /\ subCtx = subIn.context

C17_Witness ==
    /\ Spawned
    /\ DOMAIN subIn.context.env = {"A", "B"}
    /\ subIn.env # None
    /\ DOMAIN processes[1].env = {"A", "B"}
    /\ processes[1].env["A"] = "task"
    /\ processes[1].env["B"] = "context"

(***************************************************************************)
(* Properties of the CLI: task arguments, and the registry during a run    *)
(***************************************************************************)
RECURSIVE FirstPlain(_, _)
\* The position of the first token of argv from i on that is not option-like (0: none).
FirstPlain(argv, i) ==
    IF i > Len(argv) THEN 0
    ELSE IF ~StartsWith(argv[i], "-") THEN i
    ELSE FirstPlain(argv, i + 1)

\* The position of the task name in argv (0: argv names no task).
TaskNameAt ==
    LET i == FirstPlain(cliIn.argv, 1)
    IN  IF i # 0 /\ cliIn.argv[i] # "" THEN i ELSE 0

TokensAfterTaskName == SubSeq(cliIn.argv, TaskNameAt + 1, Len(cliIn.argv))

\* C18 as stated: the task is called with every argv token that follows the task
\* name, unchanged and in order, whatever the tokens are, and a token after the task
\* name is never taken as a global flag (the run does not list the tasks for it).
C18_TaskArgsVerbatim ==
    /\ ran # <<>> =>
          /\ TaskNameAt # 0
          /\ ran[1].name = cliIn.argv[TaskNameAt]
          /\ ran[1].args = TokensAfterTaskName
    /\ (cliPc = "ended" /\ TaskNameAt = 1) => cliOut.listed = {}

\* C19: in a CLI run the store is written only by the loader's steps, which are over
\* when the task is looked up: a step changes the store only while load_tasks is
\* running, and once the task has been looked up, constructed or run the loader has
\* returned and no step changes the store.
C19_StoreWrittenOnlyWhileLoading ==
    [][/\ store' # store => (cliPc = "loading" /\ loadPc = "loading" /\ cliPc' = "loading")
       /\ (lastGet' # NoGet \/ task' # NoTask \/ ran' # <<>> \/ cliPc' \in {"running", "ended"})
             => (store' = store /\ regLog' = regLog
                 /\ (cliPc' = "running" => loadPc' = "done" /\ modules' = <<>>))]_vars

C19_Witness ==
    /\ cliPc = "ended"
    /\ ran # <<>>
    /\ loadPc = "done"
    /\ Len(regLog) >= 3
    /\ Cardinality(DOMAIN store) >= 2

(***************************************************************************)
(* Properties of FilesNotModified.                                         *)
(***************************************************************************)
\* The paths given to the condition that are not directories.
WatchedFiles == {file \in Range(condIn.files) : ~is_dir(file)}

\* The cache file holds the value val for the file.
Stored(file, val) == cacheFile # None /\ <<file, val>> \in cacheFile[1]

\* The step is an evaluation of the condition.
Evaluated == condOut'.evals # condOut.evals

Unmodified ==
    /\ \A file \in WatchedFiles :
          exists(file) => Stored(file, val_getter(condIn.algorithm, file))
    /\ condIn.allow_missing \/ \A file \in WatchedFiles : exists(file)

\* C20: an evaluation of FilesNotModified returns true exactly when every watched
\* file that exists has the digest stored for it in the cache before the call and,
\* unless allow_missing is set, no watched file is missing.
C20_TrueExactlyWhenUnmodified ==
    [][Evaluated => condOut'.result = Some(Unmodified)]_vars

\* The last evaluation returned true with allow_missing set, one watched file
\* missing and another one present.
C20_Witness ==
    /\ condOut.evals = MaxEvals
    /\ condOut.result = Some(TRUE)
    /\ condIn.allow_missing
    /\ \E file \in WatchedFiles : ~exists(file)
    /\ \E file \in WatchedFiles : exists(file)

\* The file is a regular file in the file system f.
PresentIn(f, file) == f[file].kind = "file"

\* The file has the same digest in the file systems f and g, where it is present.
SameDigest(f, g, file) ==
    IF condIn.algorithm = "timestamp"
    THEN f[file].mtime = g[file].mtime
    ELSE f[file].content = g[file].content

\* An earlier evaluation has been made.
EvaluatedBefore == condOut.evals > 0

\* No watched file has a digest other than at the last evaluation.
NotModifiedSince == \A file \in WatchedFiles : SameDigest(evaluatedFs, fs, file)

\* The watched files are all present now, and were at the last evaluation if any.
AllPresent ==
    /\ \A file \in WatchedFiles : PresentIn(fs, file)
    /\ EvaluatedBefore => \A file \in WatchedFiles : PresentIn(evaluatedFs, file)

EvaluationSequence ==
    /\ ~EvaluatedBefore => condOut'.result = Some(FALSE)
    /\ EvaluatedBefore => condOut'.result = Some(NotModifiedSince)

\* C21 as stated: with all watched files present, the first evaluation returns
\* false, an evaluation that follows another one with no watched file modified in
\* between returns true, and one that follows a modification returns false.
C21_FalseTrueFalseTrue ==
    [][Evaluated /\ AllPresent => EvaluationSequence]_vars

\* C21 with at least one watched file: with all watched files present, the first
\* evaluation returns false and a later one returns true exactly when no watched
\* file's digest differs from the one it had at the evaluation before.
C21_FalseTrueFalseTrueSomeFile ==
    [][Evaluated /\ AllPresent /\ WatchedFiles # {} => EvaluationSequence]_vars

\* The fourth evaluation returned true and the watched files, all present, are as
\* they were then.
C21_Witness ==
    /\ condOut.evals = 4
    /\ condOut.result = Some(TRUE)
    /\ WatchedFiles # {}
    /\ \A file \in WatchedFiles : PresentIn(evaluatedFs, file)
    /\ fs = evaluatedFs

\* The cache file written has an entry for the file.
HasEntry(cache_file, file) ==
    cache_file # None /\ \E member \in cache_file[1] : member[1] = file

\* C25: an evaluation at which a watched file does not exist leaves no entry for it
\* in the cache file, and an evaluation at which a watched file exists again after
\* an evaluation at which it did not returns false, for either value of
\* allow_missing.
C25_MissingEntryRemoved ==
    [][Evaluated =>
         /\ \A file \in WatchedFiles : ~exists(file) => ~HasEntry(cacheFile', file)
         /\ EvaluatedBefore =>
              \A file \in WatchedFiles :
                  ~PresentIn(evaluatedFs, file) /\ exists(file) =>
                      condOut'.result = Some(FALSE)]_vars

\* C29: an evaluation with the directory d watched returns false when the file
\* d/g inside it has another digest than at the evaluation before.
C29_DirectoryFilesChecked ==
    [][Evaluated /\ EvaluatedBefore /\ "d" \in Range(condIn.files)
         /\ PresentIn(evaluatedFs, "d/g") /\ PresentIn(fs, "d/g")
         /\ ~SameDigest(evaluatedFs, fs, "d/g")
       => condOut'.result = Some(FALSE)]_vars

(***************************************************************************)
(* Properties of Task.input.                                               *)
(***************************************************************************)
\* The line without its trailing newline.
WithoutNewline(line) ==
    IF EndsWith(line, "\n") THEN SubSeq(line, 1, Len(line) - 1) ELSE line

\* An empty line, or no line at all at the end of the file.
EmptyLine(line) == line \in {"\n", ""}

LinesRead == inputOut.lines

InputReturned == inputPc = "done"

\* C22: the prompt is written once before each read; a required input returns the
\* first line read that is not empty, without its newline, and never the empty
\* string, every line read before it being empty; an input that is not required
\* returns after one read, the empty string for an empty line.
C22_InputPrompts ==
    /\ \A i \in 1..Len(InputWrites) : InputWrites[i] = inputIn.prompt
    /\ Len(InputWrites) = Len(LinesRead) + (IF inputPc = "read" THEN 1 ELSE 0)
    /\ \A i \in 1..(Len(LinesRead) - 1) : inputIn.required /\ EmptyLine(LinesRead[i])
    /\ ~InputReturned => \A i \in 1..Len(LinesRead) : EmptyLine(LinesRead[i])
    /\ InputReturned =>
         /\ Len(LinesRead) >= 1
         /\ inputOut.returned = Some(WithoutNewline(LinesRead[Len(LinesRead)]))
         /\ inputIn.required => inputOut.returned # Some("")
         /\ ~inputIn.required => Len(LinesRead) = 1

\* A required input returned value1 after two empty lines and three prompts.
C22_Witness ==
    /\ InputReturned
    /\ inputIn.required
    /\ LinesRead = <<"\n", "\n", "value1\n">>
    /\ inputOut.returned = Some("value1")
    /\ InputWrites = <<inputIn.prompt, inputIn.prompt, inputIn.prompt>>

\* An input that is not required returned the empty string for an empty line.
C22_WitnessNotRequired ==
    /\ InputReturned
    /\ ~inputIn.required
    /\ LinesRead = <<"\n">>
    /\ inputOut.returned = Some("")

(***************************************************************************)
(* Properties of TaskMeta.__new__.                                         *)
(***************************************************************************)
\* The class was made: its statement raised nothing.
ClassMade == clsOut.made /\ clsOut.raised = NoValue

MadeMeta == clsOut.meta[1]

\* The option is given by the class's Meta, and is not empty.
Given(opt) == ~Falsy(opt)

\* l is the string s with its upper-case letters replaced by the lower-case ones.
IsLowerCased(l, s) ==
    /\ Len(l) = Len(s)
    /\ \A i \in 1..Len(s) :
          \/ \E k \in 1..Len(UpperCase) :
                /\ SubSeq(s, i, i) = SubSeq(UpperCase, k, k)
                /\ SubSeq(l, i, i) = SubSeq(LowerCase, k, k)
          \/ /\ \A k \in 1..Len(UpperCase) : SubSeq(s, i, i) # SubSeq(UpperCase, k, k)
             /\ SubSeq(l, i, i) = SubSeq(s, i, i)

\* C23: a non-private Task type has a non-empty name after its construction, the
\* one its Meta gives or else the lower-cased class name; a private type keeps what
\* its Meta gives, no name when it gives none.
C23_NonPrivateNamed ==
    ClassMade =>
        /\ ~MadeMeta.private =>
              /\ Given(MadeMeta.name)
              /\ Given(clsIn.Meta.name) => MadeMeta.name = clsIn.Meta.name
              /\ ~Given(clsIn.Meta.name) =>
                     /\ MadeMeta.name # None
                     /\ IsLowerCased(MadeMeta.name[1], clsIn.name)
        /\ MadeMeta.private => MadeMeta.name = clsIn.Meta.name

\* The class MyTask, not private and with no name in its Meta, is named mytask.
C23_Witness ==
    /\ ClassMade
    /\ ~MadeMeta.private
    /\ clsIn.name = "MyTask"
    /\ clsIn.Meta.name = None
    /\ MadeMeta.name = Some("mytask")

\* line is the docstring up to its first newline.
IsFirstLine(line, doc) ==
    /\ Len(line) <= Len(doc)
    /\ SubSeq(doc, 1, Len(line)) = line
    /\ \A i \in 1..Len(line) : SubSeq(line, i, i) # "\n"
    /\ Len(line) < Len(doc) => SubSeq(doc, Len(line) + 1, Len(line) + 1) = "\n"

\* C24: for a non-private Task type with a docstring, short_help is the first line of
\* the docstring when Meta gives none, help is the docstring when Meta gives none,
\* and a help or short_help that Meta gives is kept.
C24_HelpFromDocstring ==
    ClassMade /\ ~MadeMeta.private /\ Given(clsIn.doc) =>
        /\ ~Given(clsIn.Meta.short_help) =>
              /\ MadeMeta.short_help # None
              /\ IsFirstLine(MadeMeta.short_help[1], clsIn.doc[1])
        /\ ~Given(clsIn.Meta.help) => MadeMeta.help = clsIn.doc
        /\ Given(clsIn.Meta.help) => MadeMeta.help = clsIn.Meta.help
        /\ Given(clsIn.Meta.short_help) => MadeMeta.short_help = clsIn.Meta.short_help

(***************************************************************************)
(* Properties of Command.run.                                              *)
(***************************************************************************)
Getters == {"get_binary", "get_program", "get_args", "get_program_args", "get_cwd", "get_env"}

\* The getters run called, in order.
GetterCalls == SelectSeq(cmdOut.calls, LAMBDA call : call.method \in Getters)

\* Every getter that run called received run's own arguments.
GettersReceiveRunArguments ==
    \A i \in 1..Len(GetterCalls) :
        /\ GetterCalls[i].args = cmdIn.args
        /\ GetterCalls[i].kwargs = cmdIn.kwargs

\* C26: run calls the getter of the binary, the getter of the arguments, get_cwd and
\* get_env, each with the unknown arguments as positional arguments and the parsed
\* arguments as keyword arguments.
C26_GettersReceiveTaskArgs ==
    cmdOut.ran /\ cmdOut.raised = NoValue =>
        /\ Len(GetterCalls) = 4
        /\ GetterCalls[3].method = "get_cwd"
        /\ GetterCalls[4].method = "get_env"
        /\ GettersReceiveRunArguments

(***************************************************************************)
(* Properties of the thread groups, second part.                           *)
(***************************************************************************)
\* Member i was handed to the executor: its work item is queued, or a worker took it.
Submitted(i) ==
    \/ i \in Range(pool.work_queue)
    \/ \E w \in DOMAIN workers : workers[w].item = i
    \/ members[i].runs > 0

\* The group waits for results, or has stopped doing so.
AwaitingOrLater == grpPc.pc \in {"as_completed", "shutdown", "wake_up", "join", "returned", "raised"}

\* C27: every member of a thread group is submitted before a result is awaited, no
\* member is run twice, and when the run of the group ends every member has been
\* run once and has finished, whatever the other members did and whatever the size
\* of the pool.
C27_AllSubmittedRunOnce ==
    grpIn.kind = "thread" =>
        /\ \A i \in DOMAIN members : members[i].runs <= 1
        /\ AwaitingOrLater \/ observed # {} =>
              /\ Len(members) = Len(grpIn.task_classes)
              /\ \A i \in DOMAIN members : Submitted(i)
        /\ GroupEnded =>
              \A i \in DOMAIN members : members[i].runs = 1 /\ Finished(i)

\* With one worker for two members the first member raised, its exception left the
\* loop before the second one's result was awaited, and the second one was run.
C27_Witness ==
    /\ grpIn.kind = "thread"
    /\ grpIn.max_workers = 1
    /\ grpIn.task_classes = <<"raise", "ok">>
    /\ grpPc.pc = "raised"
    /\ observed = {1}
    /\ members[2].runs = 1
    /\ members[2].state = "returned"

(***************************************************************************)
(* Properties of the loader, second part.                                  *)
(***************************************************************************)
\* The modules with sub-modules that the loader has not expanded.
Unexpanded == {m \in ModuleIds : mods[m].has_namespaces /\ m \notin handled_modules}

RECURSIVE EntriesToPush(_)
\* The worklist entries that expanding the modules of the set will push, and one
\* for each expansion.
EntriesToPush(ms) ==
    IF ms = {} THEN 0
    ELSE LET m == CHOOSE m \in ms : TRUE
         IN  Len(mods[m].MOM_NAMESPACES) + 1 + EntriesToPush(ms \ {m})

\* What is left to do: the entries of the worklist and those yet to be pushed.
LoadVariant == Len(modules) + EntriesToPush(Unexpanded)

\* A module declares itself, or two modules each other, as a sub-module.
CyclicDeclaration ==
    \E m \in ModuleIds, n \in ModuleIds :
        /\ \E i \in 1..Len(mods[m].MOM_NAMESPACES) : mods[m].MOM_NAMESPACES[i][2] = n
        /\ \E i \in 1..Len(mods[n].MOM_NAMESPACES) : mods[n].MOM_NAMESPACES[i][2] = m
        /\ mods[m].has_namespaces /\ mods[n].has_namespaces

\* C28: load_tasks_from_module terminates for every module graph, cyclic ones
\* included: while it has not returned a step is enabled, every iteration of the
\* loop leaves less to do, and a module is expanded at most once.
C28_LoaderTerminates ==
    /\ [](loadPc = "loading" => ENABLED NextLoad)
    /\ [][loadPc' = "loading" =>
            /\ LoadVariant' < LoadVariant
            /\ handled_modules' # handled_modules =>
                  Cardinality(handled_modules') = Cardinality(handled_modules) + 1]_vars

\* The loader has returned for a graph in which the root module is declared as a
\* sub-module of a module that it declares, or of itself.
C28_Witness ==
    /\ loadPc = "done"
    /\ modules = <<>>
    /\ CyclicDeclaration
    /\ RootModule \in handled_modules
    /\ \E m \in handled_modules :
          \E i \in 1..Len(mods[m].MOM_NAMESPACES) : mods[m].MOM_NAMESPACES[i][2] = RootModule

(***************************************************************************)
(* Properties of the CLI entry, third part.                                *)
(***************************************************************************)
\* main ended with task-not-found: exit code 1, or the error itself when raise_error.
ReportedTaskNotFound ==
    /\ cliPc = "ended"
    /\ \/ cliOut.kind = "exit" /\ cliOut.exit_code = 1
       \/ cliOut.kind = "raise" /\ cliOut.raised = "TaskNotFoundError"

\* C30: the CLI reports task-not-found only when the name it looked up is absent
\* from the registry, whatever the construction of a registered task raises.
C30_NotFoundOnlyWhenAbsent ==
    ReportedTaskNotFound => LookedUpAbsent

====
